---- MODULE Spec2Model ----
(***************************************************************************)
(* Model of compute_landsat_sr_refl (lasrc/c_version/src/                  *)
(* compute_landsat_refl.c): the Landsat 8/9 surface reflectance pipeline.  *)
(*                                                                         *)
(* Numbers.  C floats are modelled in fixed point, one unit = 0.001        *)
(* (reflectance, residual, AOT and eps alike), extended with the three     *)
(* IEEE specials PosInf, NegInf and NaN.  Comparisons go through FLt, FLe, *)
(* FGt, FGe, which are false as soon as one side is NaN, as in C.          *)
(*                                                                         *)
(* Collaborators whose code is not part of this file (atmcorlamb2,         *)
(* atmcorlamb2_new, subaeroret_new, find_closest_non_fill, the filler and  *)
(* the interpolator, the header constants) are modelled from the design    *)
(* document; their results are read from a per-scene oracle chosen in      *)
(* Init, so that every run of the model is a function of its inputs.       *)
(***************************************************************************)
EXTENDS Integers, Sequences, FiniteSets, TLC

(***************************************************************************)
(* Bounds of the model: the raster size.                                   *)
(***************************************************************************)
MaxLines == 5
MaxSamps == 2

(***************************************************************************)
(* Header constants (common.h, not part of this file), in model units.     *)
(***************************************************************************)
LAERO_WINDOW == 3
LHALF_AERO_WINDOW == 1
LOW_EPS == 1000
MOD_EPS == 1750
HIGH_EPS == 2500
MIN_VALID_REFL == -10
MAX_VALID_REFL == 1600
LOW_AERO_THRESH == 10
AVG_AERO_THRESH == 30
IPFLAG_FILL == 0
IPFLAG_CLEAR == 1
IPFLAG_WATER == 2
AERO1_QA == 6
AERO2_QA == 7
DNL_BAND1 == 0
DNL_BAND2 == 1
DNL_BAND4 == 3
DNL_BAND5 == 4
DNL_BAND7 == 6
SRL_BAND5 == 4
SRL_BAND7 == 6
SUCCESS == 0
ERROR == 1

(***************************************************************************)
(* IEEE specials of the fixed-point floats.                                *)
(***************************************************************************)
PosInf == 1000 * 1000
NegInf == 0 - PosInf
NaN == PosInf + PosInf

IsNaN(a) == a = NaN

FLt(a, b) == ~IsNaN(a) /\ ~IsNaN(b) /\ a < b
FLe(a, b) == ~IsNaN(a) /\ ~IsNaN(b) /\ a <= b
FGt(a, b) == ~IsNaN(a) /\ ~IsNaN(b) /\ a > b
FGe(a, b) == ~IsNaN(a) /\ ~IsNaN(b) /\ a >= b

IsFinite(a) == a > NegInf /\ a < PosInf

\* a / b of two values in model units, the quotient in model units
FDiv(a, b) ==
    IF IsNaN(a) \/ IsNaN(b) THEN NaN
    ELSE IF ~IsFinite(a) /\ ~IsFinite(b) THEN NaN
    ELSE IF ~IsFinite(b) THEN 0
    ELSE IF b = 0 THEN (IF a = 0 THEN NaN ELSE IF a > 0 THEN PosInf ELSE NegInf)
    ELSE IF ~IsFinite(a) THEN (IF (a > 0) = (b > 0) THEN PosInf ELSE NegInf)
    ELSE (a * 1000) \div b

\* a * b of two finite values in model units, the product in model units
FMul(a, b) ==
    IF IsNaN(a) \/ IsNaN(b) THEN NaN ELSE (a * b) \div 1000

FAbs(a) == IF IsNaN(a) THEN NaN ELSE IF a < 0 THEN 0 - a ELSE a

(***************************************************************************)
(* Bit operations on the uint8 ipflag.                                     *)
(***************************************************************************)
Pow2(n) == IF n = 0 THEN 1 ELSE IF n = 1 THEN 2 ELSE IF n = 2 THEN 4
           ELSE IF n = 3 THEN 8 ELSE IF n = 4 THEN 16 ELSE IF n = 5 THEN 32
           ELSE IF n = 6 THEN 64 ELSE 128

HasBit(f, n) == (f \div Pow2(n)) % 2 = 1

\* f |= (1 << n)
SetBit(f, n) == IF HasBit(f, n) THEN f ELSE f + Pow2(n)

\* level1_qa_is_fill: bit 0 of the Level-1 QA value
level1_qa_is_fill(qa) == qa % 2 = 1

\* lasrc_qa_is_water: the IPFLAG_WATER bit of ipflag
lasrc_qa_is_water(f) == HasBit(f, IPFLAG_WATER)

(***************************************************************************)
(* Raster geometry.                                                        *)
(***************************************************************************)
Lines == 0 .. (MaxLines - 1)
NPixels == MaxLines * MaxSamps
Pix == 0 .. (NPixels - 1)
Bands == 0 .. SRL_BAND7

PixOf(l, s) == l * MaxSamps + s
LineOf(p) == p \div MaxSamps
SampOf(p) == p % MaxSamps

FAdd(a, b) ==
    IF IsNaN(a) \/ IsNaN(b) THEN NaN
    ELSE IF ~IsFinite(a) /\ ~IsFinite(b) THEN (IF a = b THEN a ELSE NaN)
    ELSE IF ~IsFinite(a) THEN a
    ELSE IF ~IsFinite(b) THEN b
    ELSE a + b

FSub(a, b) ==
    IF IsNaN(b) THEN NaN ELSE IF ~IsFinite(b) THEN FAdd(a, 0 - b) ELSE FAdd(a, 0 - b)

\* integer quotient rounded towards minus infinity, for any non-zero divisor
IDiv(a, b) == IF b > 0 THEN a \div b ELSE (0 - a) \div (0 - b)

(***************************************************************************)
(* The scene oracle: what the collaborators return for this scene.         *)
(***************************************************************************)
\* TOA reflectance of the input raster (written by compute_landsat_toa_refl,
\* which clamps it to the valid range)
ToaVals == <<200, 0, 1600, 50, 900>>

ToaOf(seed, b, p) == ToaVals[((seed + 2 * b + p) % Len(ToaVals)) + 1]

\* atmcorlamb2: (tgo, roatm, ttatmg, satm) of a band at the scene centre
Atmos == << [tgo |-> 980, roatm |-> 50, ttatmg |-> 900, satm |-> 100],
            [tgo |-> 950, roatm |-> 100, ttatmg |-> 500, satm |-> 200] >>

AtmOf(sel, b) == Atmos[((sel + b) % Len(Atmos)) + 1]

\* subaeroret_new and atmcorlamb2_new at a window's radiometry pixel:
\*   r1, r2, r3   residuals of the three eps trials, a1, a3 the raot of trials
\*                1 and 3, a2 that of trial 2
\*   r4, a4       residual and raot of the call at epsmin
\*   ros5, ros4   band 5 and band 4 surface reflectance of the land test
\*   wr, wa       residual and raot of the water retrieval
\*   ros1         band 1 surface reflectance of the water test
Scenarios ==
    << [r1 |-> 40, r2 |-> 10, r3 |-> 30, a1 |-> 100, a2 |-> 150, a3 |-> 200,
        r4 |-> 8, a4 |-> 120, ros5 |-> 300, ros4 |-> 100,
        wr |-> 5, wa |-> 80, ros1 |-> 20],
       [r1 |-> 40, r2 |-> 10, r3 |-> 30, a1 |-> 100, a2 |-> 150, a3 |-> 200,
        r4 |-> 8, a4 |-> 120, ros5 |-> 50, ros4 |-> 100,
        wr |-> 5, wa |-> 80, ros1 |-> 20],
       [r1 |-> 40, r2 |-> 10, r3 |-> 30, a1 |-> 100, a2 |-> 150, a3 |-> 200,
        r4 |-> 90, a4 |-> 120, ros5 |-> 300, ros4 |-> 100,
        wr |-> 60, wa |-> 80, ros1 |-> 20],
       [r1 |-> 20, r2 |-> 20, r3 |-> 20, a1 |-> 100, a2 |-> 150, a3 |-> 200,
        r4 |-> 8, a4 |-> 120, ros5 |-> 300, ros4 |-> 100,
        wr |-> 5, wa |-> 80, ros1 |-> 20],
       [r1 |-> 10, r2 |-> 20, r3 |-> 40, a1 |-> 100, a2 |-> 150, a3 |-> 200,
        r4 |-> 8, a4 |-> 120, ros5 |-> 300, ros4 |-> 100,
        wr |-> 5, wa |-> 80, ros1 |-> 20],
       [r1 |-> 40, r2 |-> 20, r3 |-> 10, a1 |-> 100, a2 |-> 150, a3 |-> 200,
        r4 |-> 8, a4 |-> 120, ros5 |-> 300, ros4 |-> 400,
        wr |-> 10, wa |-> 80, ros1 |-> 0],
       [r1 |-> 30, r2 |-> 20, r3 |-> 10, a1 |-> 100, a2 |-> 150, a3 |-> 200,
        r4 |-> 8, a4 |-> 120, ros5 |-> 300, ros4 |-> 100,
        wr |-> 5, wa |-> 80, ros1 |-> 20],
       [r1 |-> 40, r2 |-> 10, r3 |-> 30, a1 |-> 100, a2 |-> 150, a3 |-> 200,
        r4 |-> 30, a4 |-> 120, ros5 |-> 300, ros4 |-> 100,
        wr |-> 5, wa |-> 80, ros1 |-> -5],
       [r1 |-> 10, r2 |-> 20, r3 |-> 50, a1 |-> 100, a2 |-> 150, a3 |-> 200,
        r4 |-> 9, a4 |-> 110, ros5 |-> 300, ros4 |-> 100,
        wr |-> 5, wa |-> 80, ros1 |-> 20],
       [r1 |-> 50, r2 |-> 20, r3 |-> 10, a1 |-> 100, a2 |-> 150, a3 |-> 200,
        r4 |-> 9, a4 |-> 190, ros5 |-> 300, ros4 |-> 100,
        wr |-> 5, wa |-> 80, ros1 |-> 20] >>

ScenOf(sc, p) == Scenarios[((sc.base + sc.step * p) % Len(Scenarios)) + 1]

\* atmcorlamb2_new in the final correction: the corrected reflectance of a
\* pixel differs from the climatology value by one of these amounts
Deltas == <<0, 10, 11, 29, 30, -2000, 2000, -31>>

DeltaOf(seed, b, p) == Deltas[((seed + b + 3 * p) % Len(Deltas)) + 1]

(***************************************************************************)
(* Geolocation of a pixel and the climate modelling grid (CMG).  Latitudes *)
(* and longitudes are in 0.001 degree; x/ycmg are in 0.001 grid cell.      *)
(***************************************************************************)
CMG_NBLAT == 3600
CMG_NBLON == 7200
RATIO_NBLON == 7200
RATIO_NBLAT == 3600

\* where the scene lies: latitude and longitude of the raster's upper left
\* corner and the size of half a pixel
Locations ==
    << [lat |-> 45000, lon |-> 10000, half |-> 10],
       [lat |-> 40, lon |-> 179930, half |-> 10],
       [lat |-> -89900, lon |-> -180000, half |-> 10],
       [lat |-> 90000, lon |-> 50, half |-> 10],
       [lat |-> 89965, lon |-> 179965, half |-> 10],
       [lat |-> -89985, lon |-> -179985, half |-> 10],
       [lat |-> 90100, lon |-> 180100, half |-> 10],
       [lat |-> -90100, lon |-> -180100, half |-> 10] >>

\* from_space at img.l = i - 0.5, img.s = j + 0.5, in degrees
from_space(loc, i, j) ==
    [lat |-> Locations[loc + 1].lat - (2 * i - 1) * Locations[loc + 1].half,
     lon |-> Locations[loc + 1].lon + (2 * j + 1) * Locations[loc + 1].half]

\* (int) x of a value in 0.001: truncation towards zero
Trunc(x) == IF x >= 0 THEN x \div 1000 ELSE 0 - ((0 - x) \div 1000)

\* ycmg = (89.975 - lat) * 20.0
Ycmg(lat) == (89975 - lat) * 20

\* xcmg = (179.975 + lon) * 20.0
Xcmg(lon) == (179975 + lon) * 20

\* lcmg: clamped to the grid
Lcmg(lat) ==
    IF Trunc(Ycmg(lat)) < 0 THEN 0
    ELSE IF Trunc(Ycmg(lat)) >= CMG_NBLAT THEN CMG_NBLAT - 1
    ELSE Trunc(Ycmg(lat))

\* scmg: clamped to the grid
Scmg(lon) ==
    IF Trunc(Xcmg(lon)) < 0 THEN 0
    ELSE IF Trunc(Xcmg(lon)) >= CMG_NBLON THEN CMG_NBLON - 1
    ELSE Trunc(Xcmg(lon))

Scmg1_NoWrap(scmg) == scmg + 1

\* the next sample wraps around the dateline
Scmg1(scmg) == IF scmg >= CMG_NBLON - 1 THEN 0 ELSE scmg + 1

\* the next line stays on the last line at the pole
Lcmg1(lcmg) == IF lcmg >= CMG_NBLAT - 1 THEN lcmg ELSE lcmg + 1

\* ratio_pix11, ratio_pix12, ratio_pix21, ratio_pix22
RatioPix(geo) ==
    LET lcmg == Lcmg(geo.lat)
        scmg == Scmg(geo.lon)
    IN  << lcmg * RATIO_NBLON + scmg,
           lcmg * RATIO_NBLON + Scmg1(scmg),
           Lcmg1(lcmg) * RATIO_NBLON + scmg,
           Lcmg1(lcmg) * RATIO_NBLON + Scmg1(scmg) >>

\* u = (ycmg - lcmg), with the clamped lcmg
Ucmg(lat) == Ycmg(lat) - 1000 * Lcmg(lat)

\* v = (xcmg - scmg), with the clamped scmg
Vcmg(lon) == Xcmg(lon) - 1000 * Scmg(lon)

\* q11 * (1-u)(1-v) + q12 * (1-u) v + q21 * u (1-v) + q22 * u v
Bilinear(u, v, q11, q12, q21, q22) ==
    IDiv(q11 * (1000 - u) * (1000 - v) + q12 * (1000 - u) * v
             + q21 * u * (1000 - v) + q22 * u * v, 1000000)

\* lcmg, scmg, lcmg1, scmg1, the four ratio_pix indices and the weights u, v
\* of a location
CmgIndex(geo) ==
    [lcmg |-> Lcmg(geo.lat), scmg |-> Scmg(geo.lon),
     lcmg1 |-> Lcmg1(Lcmg(geo.lat)), scmg1 |-> Scmg1(Scmg(geo.lon)),
     pix |-> RatioPix(geo), u |-> Ucmg(geo.lat), v |-> Vcmg(geo.lon)]

\* the ratio cells a scene at loc can touch
CellsOf(loc) ==
    UNION {{RatioPix(from_space(loc, LineOf(p), SampOf(p)))[k] : k \in 1 .. 4} :
              p \in Pix}

\* the ratio file: mean ratios, NDWI statistics, slopes and intercepts of a
\* cell as read by init_sr_refl
RatioKinds ==
    << [ratiob1 |-> 50, ratiob2 |-> 500, ratiob7 |-> 1900, sndwi |-> 500,
        andwi |-> 100, slp1 |-> 7, slp2 |-> 8, slp7 |-> 9,
        int1 |-> 410, int2 |-> 420, int7 |-> 1870],
       [ratiob1 |-> 400, ratiob2 |-> 500, ratiob7 |-> 1900, sndwi |-> 100,
        andwi |-> 100, slp1 |-> 7, slp2 |-> 8, slp7 |-> 9,
        int1 |-> 410, int2 |-> 420, int7 |-> 1870],
       [ratiob1 |-> 400, ratiob2 |-> 500, ratiob7 |-> 1900, sndwi |-> 500,
        andwi |-> 100, slp1 |-> 7, slp2 |-> 8, slp7 |-> 9,
        int1 |-> 410, int2 |-> 420, int7 |-> 1870] >>

RatioFile(c) ==
    RatioKinds[(((c \div RATIO_NBLON) + (c % RATIO_NBLON)) % Len(RatioKinds)) + 1]

\* the slope and intercept arrays of a cell after init_sr_refl
RatioInit(c) ==
    [slp1 |-> RatioFile(c).slp1, slp2 |-> RatioFile(c).slp2,
     slp7 |-> RatioFile(c).slp7, int1 |-> RatioFile(c).int1,
     int2 |-> RatioFile(c).int2, int7 |-> RatioFile(c).int7]

GuardCell_Accumulate(c, rec) ==
    IF \/ RatioFile(c).ratiob2 > 1000 \/ RatioFile(c).ratiob1 > 1000
       \/ RatioFile(c).ratiob2 < 100 \/ RatioFile(c).ratiob1 < 100
    THEN [slp1 |-> 0, slp2 |-> 0, slp7 |-> 0,
          int1 |-> rec.int1 + 140, int2 |-> 600, int7 |-> 2000]
    ELSE IF RatioFile(c).sndwi < 200
    THEN [slp1 |-> 0, slp2 |-> 0, slp7 |-> 0,
          int1 |-> RatioFile(c).ratiob1, int2 |-> RatioFile(c).ratiob2,
          int7 |-> RatioFile(c).ratiob7]
    ELSE rec

\* the guard of one ratio cell: rb1 = ratiob1 * 0.001, rb2 = ratiob2 * 0.001
GuardCell(c, rec) ==
    IF \/ RatioFile(c).ratiob2 > 1000 \/ RatioFile(c).ratiob1 > 1000
       \/ RatioFile(c).ratiob2 < 100 \/ RatioFile(c).ratiob1 < 100
    THEN [slp1 |-> 0, slp2 |-> 0, slp7 |-> 0,
          int1 |-> 550, int2 |-> 600, int7 |-> 2000]
    ELSE IF RatioFile(c).sndwi < 200
    THEN [slp1 |-> 0, slp2 |-> 0, slp7 |-> 0,
          int1 |-> RatioFile(c).ratiob1, int2 |-> RatioFile(c).ratiob2,
          int7 |-> RatioFile(c).ratiob7]
    ELSE rec

GuardQuad_FirstOnly(rat, quad) ==
    [c \in DOMAIN rat |-> IF c = quad[1] THEN GuardCell(c, rat[c]) ELSE rat[c]]

\* the slope and intercept arrays after the guard of the four cells
GuardQuad(rat, quad) ==
    [c \in DOMAIN rat |->
        IF c \in {quad[k] : k \in 1 .. 4} THEN GuardCell(c, rat[c]) ELSE rat[c]]

(***************************************************************************)
(* State.                                                                  *)
(***************************************************************************)
VARIABLES
    qaband,     \* I: Level-1 QA band, nlines x nsamps
    scene,      \* I: the oracle selectors of this scene
    pc,         \* position in compute_landsat_sr_refl
    retval,     \* value returned to the caller ("none" while running)
    ib,         \* looping variable for bands
    wi, wj,     \* looping variables i, j of the aerosol window loop
    sband,      \* I/O: TOA, then surface reflectance, per band and pixel
    ipflag,     \* QA flag per pixel
    taero,      \* aerosol value per pixel
    teps,       \* angstrom coefficient per pixel
    aerob,      \* TOA snapshots aerob1, aerob2, aerob4, aerob5, aerob7
    batm,       \* btgo, broatm, bttatmg, bsatm per band
    ratio,      \* slpratiob1/2/7 and intratiob1/2/7 per ratio cell
    prog,       \* what each stage has processed so far
    fault,      \* the collaborator failure met and the errmsg buffer
    thr,        \* the private variables of each OpenMP thread
    xa,         \* coefficient xa of the parabola, shared by the threads
    xb,         \* coefficient xb of the parabola, shared by the threads
    wlog,       \* per array element, the loop iterations that wrote it
    held        \* the heap blocks allocated and not yet released

vars == <<qaband, scene, pc, retval, ib, wi, wj, sband, ipflag, taero, teps,
          aerob, batm, ratio, prog, fault, thr, xa, xb, wlog,
          held>>

\* the state only the parallel loops use
par == <<thr, xa, xb, wlog>>

\* the team of threads of a parallel region
Threads == {0, 1}

Arrays == {"sband", "ipflag", "taero", "teps", "aerob"}

NoWrites == [a \in Arrays |-> [p \in Pix |-> {}]]

IdleThread ==
    [st |-> "idle", i |-> 0, j |-> 0, cp |-> 0, inited |-> {}, sh |-> 0,
     rd |-> <<>>]

AeroBands == {DNL_BAND1, DNL_BAND2, DNL_BAND4, DNL_BAND5, DNL_BAND7}

\* FILL_VALUE, which compute_landsat_toa_refl stores at fill pixels
FILL_VALUE == -9999

NoAtm == [tgo |-> 0, roatm |-> 0, ttatmg |-> 0, satm |-> 0]

\* scene footprint: the pixels above line top or left of sample left are fill
FillPattern(top, left) ==
    [p \in Pix |-> IF LineOf(p) < top \/ SampOf(p) < left THEN 1 ELSE 0]

FillLefts == {0, LHALF_AERO_WINDOW + 1}

xmusOf(sc) == IF sc.atm = 0 THEN 1000 ELSE 500

\* char errmsg[STR_SIZE]; no failure met, nothing written to errmsg
NoFault == [what |-> "none", errmsg |-> "uninit", handed |-> "none"]

NoProgress ==
    [clim |-> {}, coef |-> {}, fit |-> {}, inv |-> {}, fix |-> {},
     interp |-> <<>>, final |-> {}, init |-> {},
     tmpf |-> [p \in Pix |-> 0], aread |-> {}, win |-> {},
     nvis |-> [p \in Pix |-> 0],
     curr |-> LHALF_AERO_WINDOW * MaxSamps + LHALF_AERO_WINDOW,
     cmg |-> CmgIndex([lat |-> 0, lon |-> 0]),
     iamax |-> [b \in Bands |-> -1],
     fitn |-> [b \in Bands |-> [roatm |-> {}, ttatmg |-> {}, satm |-> {}]],
     rotoa |-> [b \in Bands |-> [p \in Pix |-> 0]]]

\* the state after the TOA stage, for a footprint and a scene drawn from the
\* given sets
InitWith(Tops, Lefts, Scenes) ==
    /\ \E top \in Tops, left \in Lefts : qaband = FillPattern(top, left)
    /\ scene \in Scenes
    /\ pc = "alloc"
    /\ retval = "none"
    /\ ib = 0
    /\ wi = 0
    /\ wj = 0
    /\ sband = [b \in Bands |-> [p \in Pix |->
                   IF level1_qa_is_fill(qaband[p]) THEN FILL_VALUE
                   ELSE ToaOf(scene.toa, b, p)]]
    /\ ipflag = [p \in Pix |-> 0]
    /\ taero = [p \in Pix |-> 0]
    /\ teps = [p \in Pix |-> 0]
    /\ aerob = [b \in AeroBands |-> [p \in Pix |-> 0]]
    /\ batm = [b \in Bands |-> NoAtm]
    /\ ratio = [c \in CellsOf(scene.loc) |-> RatioInit(c)]
    /\ prog = NoProgress
    /\ fault = NoFault
    /\ thr = [t \in Threads |-> IdleThread]
    /\ xa = 0
    /\ xb = 0
    /\ wlog = NoWrites
    /\ held = {}

Init ==
    InitWith(0 .. MaxLines, FillLefts,
             [toa : 0 .. 1, atm : 0 .. 1, base : 0 .. (Len(Scenarios) - 1),
              step : {1}, loc : 0 .. 1])

(***************************************************************************)
(* Return paths.                                                           *)
(***************************************************************************)
\* sprintf (errmsg, ...); error_handler (...); return (ERROR);
\* the message names the collaborator that failed
ReturnError(what) ==
    /\ pc' = "returned"
    /\ retval' = ERROR
    /\ fault' = [what |-> what, errmsg |-> what, handed |-> what]

\* what an uninitialised char errmsg[STR_SIZE] can hold when it is read
Indeterminate == {"empty", "junk"}

\* error_handler (true, FUNC_NAME, errmsg); return (ERROR); in a branch with
\* no sprintf: error_handler is handed errmsg as it is
ReturnErrorAsIs(what) ==
    /\ pc' = "returned"
    /\ retval' = ERROR
    /\ \E g \in Indeterminate :
           fault' = [what |-> what, errmsg |-> fault.errmsg,
                     handed |-> IF fault.errmsg = "uninit" THEN g
                                ELSE fault.errmsg]

\* sprintf (errmsg, ...); error_handler (...); exit (ERROR);
ExitProcess(what) ==
    /\ pc' = "exited"
    /\ fault' = [what |-> what, errmsg |-> what, handed |-> what]
    /\ UNCHANGED retval

(***************************************************************************)
(* Allocation, geolocation set-up and look-up table initialisation.        *)
(***************************************************************************)
\* the blocks landsat_memory_allocation_sr hands out: the snapshots, the
\* ancillary and ratio grids, taero and teps, ipflag, the look-up tables
AllocatedBlocks == {"aerob", "ancillary", "aerosol", "ipflag", "lut"}

Allocate ==
    /\ pc = "alloc"
    /\ \/ /\ pc' = "geoloc"
          /\ held' = AllocatedBlocks
          /\ UNCHANGED <<retval, fault>>
       \/ /\ ReturnError("landsat_memory_allocation_sr")
          /\ UNCHANGED held
    /\ UNCHANGED <<par, qaband, scene, ib, wi, wj, sband, ipflag, taero, teps,
                   aerob, batm, ratio, prog>>

GetGeoloc ==
    /\ pc = "geoloc"
    /\ \/ /\ pc' = "mapping"
          /\ UNCHANGED <<retval, fault>>
       \/ ReturnError("get_geoloc_info")
    /\ UNCHANGED <<par, held, qaband, scene, ib, wi, wj, sband, ipflag, taero, teps,
                   aerob, batm, ratio, prog>>

SetupMapping ==
    /\ pc = "mapping"
    /\ \/ /\ pc' = "init"
          /\ held' = held \cup {"space"}
          /\ UNCHANGED <<retval, fault>>
       \/ /\ ReturnError("setup_mapping")
          /\ UNCHANGED held
    /\ UNCHANGED <<par, qaband, scene, ib, wi, wj, sband, ipflag, taero, teps,
                   aerob, batm, ratio, prog>>

InitSrRefl ==
    /\ pc = "init"
    /\ \/ /\ pc' = "clim"
          /\ ib' = 0
          /\ prog' = [prog EXCEPT !.init = {"lut"}]
          /\ UNCHANGED <<retval, fault>>
       \/ /\ ReturnError("init_sr_refl")
          /\ UNCHANGED <<ib, prog>>
    /\ UNCHANGED <<par, held, qaband, scene, wi, wj, sband, ipflag, taero, teps,
                   aerob, batm, ratio>>

(***************************************************************************)
(* Climatology correction, one band per step.                              *)
(***************************************************************************)
ClampRefl_NoUpper(r) ==
    IF FLt(r, MIN_VALID_REFL) THEN MIN_VALID_REFL ELSE r

\* Save the unscaled surface reflectance value
ClampRefl(r) ==
    IF FLt(r, MIN_VALID_REFL) THEN MIN_VALID_REFL
    ELSE IF FGt(r, MAX_VALID_REFL) THEN MAX_VALID_REFL
    ELSE r

\* roslamb = sband - tgo_x_roatm; roslamb /= tgo_x_ttatmg + satm * roslamb
ClimRoslamb(v, atm) ==
    LET tgo_x_roatm == FMul(atm.tgo, atm.roatm)
        tgo_x_ttatmg == FMul(atm.tgo, atm.ttatmg)
        r0 == FSub(v, tgo_x_roatm)
    IN  FDiv(r0, FAdd(tgo_x_ttatmg, FMul(atm.satm, r0)))

ClimPixel(v, atm) == ClampRefl(ClimRoslamb(v, atm))

BandLoopDone_Early(b) == b >= SRL_BAND7

\* for (ib = 0; ib <= SRL_BAND7; ib++)
BandLoopDone(b) == b > SRL_BAND7

ClimBand ==
    /\ pc = "clim"
    /\ \/ /\ LET atm == AtmOf(scene.atm, ib)
             IN  /\ batm' = [batm EXCEPT ![ib] = atm]
                 /\ sband' = [sband EXCEPT ![ib] = [p \in Pix |->
                        IF level1_qa_is_fill(qaband[p]) THEN sband[ib][p]
                        ELSE ClimPixel(sband[ib][p], atm)]]
          /\ ipflag' = [p \in Pix |->
                 IF level1_qa_is_fill(qaband[p]) /\ ib = DNL_BAND1
                 THEN Pow2(IPFLAG_FILL) ELSE ipflag[p]]
          /\ aerob' = IF ib \in AeroBands
                      THEN [aerob EXCEPT ![ib] = [p \in Pix |->
                               IF level1_qa_is_fill(qaband[p]) THEN aerob[ib][p]
                               ELSE sband[ib][p]]]
                      ELSE aerob
          /\ prog' = [prog EXCEPT !.clim = @ \cup {ib}]
          /\ ib' = IF BandLoopDone(ib + 1) THEN 0 ELSE ib + 1
          /\ pc' = IF BandLoopDone(ib + 1) THEN "coef" ELSE "clim"
          /\ UNCHANGED <<retval, fault>>
       \/ /\ ReturnError("atmcorlamb2")
          /\ UNCHANGED <<batm, sband, ipflag, aerob, prog, ib>>
    /\ UNCHANGED <<par, held, qaband, scene, wi, wj, taero, teps, ratio>>

(***************************************************************************)
(* Coefficient cache: the kernel at every AOT sample of a band, then the   *)
(* maximum AOT index and the polynomial fits.                              *)
(***************************************************************************)
NAOT_VALS == 22

\* ESPA_EPSILON, in the unit of the roatm samples (0.00001)
ESPA_EPSILON == 1

\* atmcorlamb2 at the AOT samples: roatm rises by 100 per sample up to
\* `peak` and then follows `tail` (flat, rising by exactly ESPA_EPSILON,
\* rising by 2, or falling)
RoatmKinds ==
    << [peak |-> 21, tail |-> "flat"], [peak |-> 0, tail |-> "flat"],
       [peak |-> 1, tail |-> "fall"], [peak |-> 7, tail |-> "eps"],
       [peak |-> 20, tail |-> "fall"], [peak |-> 3, tail |-> "rise2"],
       [peak |-> 12, tail |-> "flat"] >>

\* roatm_arr[ib][ia] for ia in 0 .. NAOT_VALS-1
roatm_arr(sc, b) ==
    LET k == RoatmKinds[((3 * sc.atm + b) % Len(RoatmKinds)) + 1]
    IN  [ia \in 0 .. (NAOT_VALS - 1) |->
            IF ia <= k.peak THEN 100 * ia
            ELSE IF k.tail = "flat" THEN 100 * k.peak
            ELSE IF k.tail = "eps" THEN 100 * k.peak + (ia - k.peak) * ESPA_EPSILON
            ELSE IF k.tail = "rise2" THEN 100 * k.peak + 2 * (ia - k.peak)
            ELSE 100 * k.peak - 5 * (ia - k.peak)]

\* the loop over ia = 1 .. NAOT_VALS-1 that finds iaMaxTemp
RECURSIVE IaMaxScan(_, _, _)
IaMaxScan(arr, ia, iaMaxTemp) ==
    IF ia >= NAOT_VALS THEN iaMaxTemp
    ELSE LET t == IF ia = NAOT_VALS - 1 THEN NAOT_VALS - 1 ELSE iaMaxTemp
         IN  IF arr[ia] - arr[ia - 1] > ESPA_EPSILON
             THEN IaMaxScan(arr, ia + 1, t)
             ELSE ia - 1

roatm_iaMax_Late(arr) ==
    IF IaMaxScan(arr, 1, 1) < NAOT_VALS - 1
    THEN IaMaxScan(arr, 1, 1) + 1
    ELSE IaMaxScan(arr, 1, 1)

\* iaMaxTemp = 1; for (ia = 1; ia < NAOT_VALS; ia++) ...; roatm_iaMax[ib] = iaMaxTemp
roatm_iaMax(arr) == IaMaxScan(arr, 1, 1)

\* get_3rd_order_poly_coeff (aot550nm, atm, nAtm, coeff): the indices of the
\* samples the fit is given
get_3rd_order_poly_coeff(nAtm) == 0 .. (nAtm - 1)

CoefBand ==
    /\ pc = "coef"
    /\ \/ /\ prog' = [prog EXCEPT !.coef = @ \cup {ib}]
          /\ ib' = IF BandLoopDone(ib + 1) THEN 0 ELSE ib + 1
          /\ pc' = IF BandLoopDone(ib + 1) THEN "fit" ELSE "coef"
          /\ UNCHANGED <<retval, fault>>
       \/ /\ ExitProcess("atmcorlamb2")
          /\ UNCHANGED <<prog, ib>>
    /\ UNCHANGED <<par, held, qaband, scene, wi, wj, sband, ipflag, taero, teps, aerob,
                   batm, ratio>>

FitBand ==
    /\ pc = "fit"
    /\ prog' = [prog EXCEPT
           !.fit = @ \cup {ib},
           !.iamax[ib] = roatm_iaMax(roatm_arr(scene, ib)),
           !.fitn[ib] =
               [roatm |-> get_3rd_order_poly_coeff(
                              roatm_iaMax(roatm_arr(scene, ib))),
                ttatmg |-> get_3rd_order_poly_coeff(NAOT_VALS),
                satm |-> get_3rd_order_poly_coeff(NAOT_VALS)]]
    /\ ib' = IF BandLoopDone(ib + 1) THEN 0 ELSE ib + 1
    /\ pc' = IF BandLoopDone(ib + 1) THEN "inv" ELSE "fit"
    /\ wi' = IF BandLoopDone(ib + 1) THEN LHALF_AERO_WINDOW ELSE wi
    /\ wj' = IF BandLoopDone(ib + 1) THEN LHALF_AERO_WINDOW ELSE wj
    /\ UNCHANGED <<par, held, qaband, scene, retval, fault, sband, ipflag, taero, teps,
                   aerob, batm, ratio>>

(***************************************************************************)
(* Aerosol inversion of one window.                                        *)
(***************************************************************************)
Dist(a, b) == IF a < b THEN b - a ELSE a - b

Cheb(p, cl, cs) ==
    IF Dist(LineOf(p), cl) > Dist(SampOf(p), cs)
    THEN Dist(LineOf(p), cl) ELSE Dist(SampOf(p), cs)

\* the non-fill pixels of the window centred at (cl, cs)
WindowNonFill(q, cl, cs) ==
    {p \in Pix : /\ Cheb(p, cl, cs) <= LHALF_AERO_WINDOW
                 /\ ~level1_qa_is_fill(q[p])}

\* find_closest_non_fill: the non-fill pixels of the window nearest to its
\* centre (empty: the function returns false)
find_closest_non_fill(q, cl, cs) ==
    {p \in WindowNonFill(q, cl, cs) :
        \A o \in WindowNonFill(q, cl, cs) : Cheb(p, cl, cs) <= Cheb(o, cl, cs)}

WindowSkipped_Never(q, cl, cs) == FALSE

\* the branch that moves to the next aerosol window without processing
WindowSkipped(q, cl, cs) ==
    /\ level1_qa_is_fill(q[PixOf(cl, cs)])
    /\ find_closest_non_fill(q, cl, cs) = {}

RadiometryPixels_Center(q, cl, cs) == {PixOf(cl, cs)}

\* the pixels whose radiometry the window may use (curr_pix)
RadiometryPixels(q, cl, cs) ==
    IF level1_qa_is_fill(q[PixOf(cl, cs)])
    THEN find_closest_non_fill(q, cl, cs)
    ELSE {PixOf(cl, cs)}

\* xa = (residual1 - residual3)*(eps2 - eps3)
XA(r1, r3, e2, e3) == (r1 - r3) * (e2 - e3)

\* xb = (residual2 - residual3)*(eps1 - eps3)
XB(r2, r3, e1, e3) == (r2 - r3) * (e1 - e3)

EpsMin_MidPair(ca, cb, e1, e2, e3) ==
    LET num == ca * (e1 + e2) - cb * (e1 + e3)
        den == ca - cb
    IN  IF den = 0
        THEN (IF num = 0 THEN NaN ELSE IF num > 0 THEN PosInf ELSE NegInf)
        ELSE IDiv(num, 2 * den)

\* epsmin = 0.5*(xa*(eps2 + eps3) - xb*(eps1 + eps3))/(xa - xb)
EpsMin(ca, cb, e1, e2, e3) ==
    LET num == ca * (e2 + e3) - cb * (e1 + e3)
        den == ca - cb
    IN  IF den = 0
        THEN (IF num = 0 THEN NaN ELSE IF num > 0 THEN PosInf ELSE NegInf)
        ELSE IDiv(num, 2 * den)

SelectEps_Strict(epsmin, sc) ==
    IF FGt(epsmin, LOW_EPS) /\ FLt(epsmin, HIGH_EPS)
    THEN [eps |-> epsmin, residual |-> sc.r4, raot |-> sc.a4, calls |-> 4]
    ELSE IF FLe(epsmin, LOW_EPS)
    THEN [eps |-> LOW_EPS, residual |-> sc.r1, raot |-> sc.a1, calls |-> 3]
    ELSE IF FGe(epsmin, HIGH_EPS)
    THEN [eps |-> HIGH_EPS, residual |-> sc.r3, raot |-> sc.a3, calls |-> 3]
    ELSE [eps |-> epsmin, residual |-> sc.r3, raot |-> sc.a3, calls |-> 3]

SelectEps_KeepEpsmin(epsmin, sc) ==
    IF FGe(epsmin, LOW_EPS) /\ FLe(epsmin, HIGH_EPS)
    THEN [eps |-> epsmin, residual |-> sc.r4, raot |-> sc.a4, calls |-> 4]
    ELSE IF FLe(epsmin, LOW_EPS)
    THEN [eps |-> epsmin, residual |-> sc.r1, raot |-> sc.a1, calls |-> 3]
    ELSE IF FGe(epsmin, HIGH_EPS)
    THEN [eps |-> HIGH_EPS, residual |-> sc.r3, raot |-> sc.a3, calls |-> 3]
    ELSE [eps |-> epsmin, residual |-> sc.r3, raot |-> sc.a3, calls |-> 3]

\* eps = epsmin, then the three branches on epsmin; when none is taken eps,
\* residual and raot keep the values of the third trial
SelectEps(epsmin, sc) ==
    IF FGe(epsmin, LOW_EPS) /\ FLe(epsmin, HIGH_EPS)
    THEN [eps |-> epsmin, residual |-> sc.r4, raot |-> sc.a4, calls |-> 4]
    ELSE IF FLe(epsmin, LOW_EPS)
    THEN [eps |-> LOW_EPS, residual |-> sc.r1, raot |-> sc.a1, calls |-> 3]
    ELSE IF FGe(epsmin, HIGH_EPS)
    THEN [eps |-> HIGH_EPS, residual |-> sc.r3, raot |-> sc.a3, calls |-> 3]
    ELSE [eps |-> epsmin, residual |-> sc.r3, raot |-> sc.a3, calls |-> 3]

\* atmcorlamb2_new: the Lambertian inversion at (AOT, eps); eps scales the
\* atmospheric reflectance, so a NaN eps gives a NaN reflectance
atmcorlamb2_new(val, eps) == IF IsNaN(eps) THEN NaN ELSE val

\* residual < (0.015 + 0.005 * corf + 0.10 * troatm[DNL_BAND7])
LandResidualOk(residual, raot, xmus, troatm7) ==
    LET corf == FDiv(raot, xmus)
    IN  FLt(residual, FAdd(15, FAdd(FMul(5, corf), FMul(100, troatm7))))

\* (ros5 > 0.1) && ((ros5 - ros4) / (ros5 + ros4) > 0)
NdviOk(ros5, ros4) ==
    /\ FGt(ros5, 100)
    /\ FGt(FDiv(FSub(ros5, ros4), FAdd(ros5, ros4)), 0)

LandFlag_WrongBit(f, sel, sc, xmus, troatm7) ==
    IF /\ LandResidualOk(sel.residual, sel.raot, xmus, troatm7)
       /\ NdviOk(atmcorlamb2_new(sc.ros5, sel.eps),
                 atmcorlamb2_new(sc.ros4, sel.eps))
    THEN SetBit(f, IPFLAG_CLEAR + 2)
    ELSE SetBit(f, IPFLAG_WATER)

LandFlag_NoNdvi(f, sel, sc, xmus, troatm7) ==
    IF LandResidualOk(sel.residual, sel.raot, xmus, troatm7)
    THEN SetBit(f, IPFLAG_CLEAR)
    ELSE SetBit(f, IPFLAG_WATER)

\* ipflag[center_pix] after the land/water decision
LandFlag(f, sel, sc, xmus, troatm7) ==
    IF /\ LandResidualOk(sel.residual, sel.raot, xmus, troatm7)
       /\ NdviOk(atmcorlamb2_new(sc.ros5, sel.eps),
                 atmcorlamb2_new(sc.ros4, sel.eps))
    THEN SetBit(f, IPFLAG_CLEAR)
    ELSE SetBit(f, IPFLAG_WATER)

WaterInvalid_Ge(residual, raot, xmus, ros1) ==
    LET corf == FDiv(raot, xmus)
    IN  FGe(residual, FAdd(10, FMul(5, corf))) \/ FLt(ros1, 0)

\* residual > (0.010 + 0.005 * corf) || ros1 < 0
WaterInvalid(residual, raot, xmus, ros1) ==
    LET corf == FDiv(raot, xmus)
    IN  FGt(residual, FAdd(10, FMul(5, corf))) \/ FLt(ros1, 0)

\* eps of the water retrieval
WaterEps == 1500

WaterRetrieval_WaterOnly(sc, xmus) ==
    [eps |-> WaterEps, raot |-> sc.wa, residual |-> sc.wr,
     ros1 |-> atmcorlamb2_new(sc.ros1, WaterEps),
     call |-> [water |-> TRUE, eps |-> WaterEps, iaots |-> 0],
     flag |-> IF WaterInvalid(sc.wr, sc.wa, xmus,
                              atmcorlamb2_new(sc.ros1, WaterEps))
              THEN 0
              ELSE Pow2(IPFLAG_WATER)]

\* the water retrieval: teps, taero and ipflag of the centre after it
WaterRetrieval(sc, xmus) ==
    [eps |-> WaterEps, raot |-> sc.wa, residual |-> sc.wr,
     ros1 |-> atmcorlamb2_new(sc.ros1, WaterEps),
     call |-> [water |-> TRUE, eps |-> WaterEps, iaots |-> 0],
     flag |-> IF WaterInvalid(sc.wr, sc.wa, xmus,
                              atmcorlamb2_new(sc.ros1, WaterEps))
              THEN 0
              ELSE SetBit(Pow2(IPFLAG_CLEAR), IPFLAG_WATER)]

WindowResult_StoreIfValid(f, sc, xmus, troatm7, ca, cb) ==
    LET epsmin == EpsMin(ca, cb, LOW_EPS, MOD_EPS, HIGH_EPS)
        sel == SelectEps(epsmin, sc)
        lf == LandFlag(f, sel, sc, xmus, troatm7)
        wat == WaterRetrieval(sc, xmus)
    IN  IF lasrc_qa_is_water(lf)
        THEN [eps |-> IF wat.flag = 0 THEN sel.eps ELSE wat.eps,
              raot |-> IF wat.flag = 0 THEN sel.raot ELSE wat.raot,
              flag |-> wat.flag,
              epsmin |-> epsmin, calls |-> sel.calls, water |-> TRUE,
              sel |-> sel, lf |-> lf, wcalls |-> <<wat.call>>]
        ELSE [eps |-> sel.eps, raot |-> sel.raot, flag |-> lf,
              epsmin |-> epsmin, calls |-> sel.calls, water |-> FALSE,
              sel |-> sel, lf |-> lf, wcalls |-> <<>>]

\* teps, taero and ipflag of the window centre once the window is processed
\* with the radiometry of pixel cp, given the xa and xb read at line 1068
WindowResult(f, sc, xmus, troatm7, ca, cb) ==
    LET epsmin == EpsMin(ca, cb, LOW_EPS, MOD_EPS, HIGH_EPS)
        sel == SelectEps(epsmin, sc)
        lf == LandFlag(f, sel, sc, xmus, troatm7)
        wat == WaterRetrieval(sc, xmus)
    IN  IF lasrc_qa_is_water(lf)
        THEN [eps |-> wat.eps, raot |-> wat.raot, flag |-> wat.flag,
              epsmin |-> epsmin, calls |-> sel.calls, water |-> TRUE,
              sel |-> sel, lf |-> lf, wcalls |-> <<wat.call>>]
        ELSE [eps |-> sel.eps, raot |-> sel.raot, flag |-> lf,
              epsmin |-> epsmin, calls |-> sel.calls, water |-> FALSE,
              sel |-> sel, lf |-> lf, wcalls |-> <<>>]

OutputCell_Column(center_pix, curr_pix) == SampOf(center_pix)

OutputCell_Substitute(center_pix, curr_pix) == curr_pix

\* teps[center_pix], taero[center_pix], ipflag[center_pix]: the element a
\* window writes
OutputCell(center_pix, curr_pix) == center_pix

GeoPixel_Center(center_pix, curr_pix) == center_pix

\* the pixel whose line and sample go into img.l = i - 0.5, img.s = j + 0.5:
\* i and j after the substitution of the nearest non-fill pixel
GeoPixel(center_pix, curr_pix) == curr_pix

\* lat and lon of the window
WindowGeo(loc, center_pix, curr_pix) ==
    from_space(loc, LineOf(GeoPixel(center_pix, curr_pix)),
               SampOf(GeoPixel(center_pix, curr_pix)))

\* (b5 - b7 * 0.5) / (b5 + b7 * 0.5)
Ndwi(b5, b7) == FDiv(FSub(b5, FMul(b7, 500)), FAdd(b5, FMul(b7, 500)))

\* ndwi_th1 and ndwi_th2 from the NDWI statistics of cell ratio_pix11
NdwiTh1(c) == (RatioFile(c).andwi + 2 * RatioFile(c).sndwi)

NdwiTh2(c) == (RatioFile(c).andwi - 2 * RatioFile(c).sndwi)

\* if (xndwi > ndwi_th1) xndwi = ndwi_th1; if (xndwi < ndwi_th2) xndwi = ndwi_th2;
NdwiClamp(x, th1, th2) ==
    LET x1 == IF FGt(x, th1) THEN th1 ELSE x
    IN  IF FLt(x1, th2) THEN th2 ELSE x1

\* xndwi of the window: from sband[SRL_BAND5][curr_pix] and
\* sband[SRL_BAND7][curr_pix] as they are when the inversion runs
Xndwi(sb, cp, c) ==
    NdwiClamp(Ndwi(sb[SRL_BAND5][cp], sb[SRL_BAND7][cp]),
              NdwiTh1(c), NdwiTh2(c))

\* lines 941-991: the slopes and intercepts of the four cells as the window
\* reads them, after its own guard
ReadQuad(rat, quad) == [k \in 1 .. 4 |-> GuardQuad(rat, quad)[quad[k]]]

\* what a processed window computed, kept for the properties
WindowLog(c, cp, res, rd) ==
    [c |-> c, cp |-> cp, rd |-> rd,
     geo |-> WindowGeo(scene.loc, c, cp),
     xndwi |-> Xndwi(sband, cp, RatioPix(WindowGeo(scene.loc, c, cp))[1]),
     epsmin |-> res.epsmin, calls |-> res.calls,
     sel |-> res.sel, lf |-> res.lf, water |-> res.water, wcalls |-> res.wcalls,
     flag |-> res.flag, eps |-> res.eps, raot |-> res.raot]

LoopVarsAtEnd_Current(center_line, center_samp, center_pix, cur_line, cur_samp, cur_pix) ==
    <<cur_line, cur_samp, cur_pix>>

\* i = center_line; j = center_samp; curr_pix = center_pix;
LoopVarsAtEnd(center_line, center_samp, center_pix, cur_line, cur_samp, cur_pix) ==
    <<center_line, center_samp, center_pix>>

\* j += LAERO_WINDOW, curr_pix += LAERO_WINDOW of the inner loop;
\* i += LAERO_WINDOW and curr_pix = i * nsamps + LHALF_AERO_WINDOW of the
\* outer one
NextWindow(ijp) ==
    IF ijp[2] + LAERO_WINDOW < MaxSamps
    THEN <<ijp[1], ijp[2] + LAERO_WINDOW, ijp[3] + LAERO_WINDOW>>
    ELSE <<ijp[1] + LAERO_WINDOW, LHALF_AERO_WINDOW,
           (ijp[1] + LAERO_WINDOW) * MaxSamps + LHALF_AERO_WINDOW>>

InvAdvance(ij) ==
    /\ wi' = NextWindow(ij)[1]
    /\ wj' = NextWindow(ij)[2]
    /\ pc' = IF NextWindow(ij)[1] < MaxLines THEN "inv" ELSE "free_aux"

InvertWindow ==
    /\ pc = "inv"
    /\ LET center_pix == prog.curr
       IN  \/ /\ WindowSkipped(qaband, wi, wj)
              /\ InvAdvance(<<wi, wj, center_pix>>)
              /\ prog' = [prog EXCEPT
                     !.inv = @ \cup {<<center_pix, -1>>},
                     !.nvis[center_pix] = @ + 1,
                     !.curr = NextWindow(<<wi, wj, center_pix>>)[3]]
              /\ UNCHANGED <<taero, teps, ipflag, ratio, retval, fault>>
           \/ /\ ~WindowSkipped(qaband, wi, wj)
              /\ \E cp \in (IF RadiometryPixels(qaband, wi, wj) = {}
                            THEN {center_pix}
                            ELSE RadiometryPixels(qaband, wi, wj)) :
                   LET sc == ScenOf(scene, cp)
                       res == WindowResult(ipflag[OutputCell(center_pix, cp)], sc,
                                  xmusOf(scene), aerob[DNL_BAND7][cp],
                                  XA(sc.r1, sc.r3, MOD_EPS, HIGH_EPS),
                                  XB(sc.r2, sc.r3, LOW_EPS, HIGH_EPS))
                   IN  /\ ratio' = GuardQuad(ratio, RatioPix(
                                     WindowGeo(scene.loc, center_pix, cp)))
                       /\ teps' = [teps EXCEPT
                              ![OutputCell(center_pix, cp)] = res.eps]
                       /\ taero' = [taero EXCEPT
                              ![OutputCell(center_pix, cp)] = res.raot]
                       /\ ipflag' = [ipflag EXCEPT
                              ![OutputCell(center_pix, cp)] = res.flag]
                       /\ prog' = [prog EXCEPT
                              !.inv = @ \cup {<<center_pix, cp>>},
                              !.aread = @ \cup {cp},
                              !.win = @ \cup {WindowLog(center_pix, cp, res,
                                  ReadQuad(ratio, RatioPix(
                                      WindowGeo(scene.loc, center_pix, cp))))},
                              !.nvis[center_pix] = @ + 1,
                              !.curr = NextWindow(LoopVarsAtEnd(wi, wj,
                                  center_pix, LineOf(cp), SampOf(cp), cp))[3]]
                       /\ InvAdvance(LoopVarsAtEnd(wi, wj, center_pix,
                                                   LineOf(cp), SampOf(cp), cp))
              /\ UNCHANGED <<retval, fault>>
           \/ /\ ~WindowSkipped(qaband, wi, wj)
              /\ ExitProcess("from_space")
              /\ UNCHANGED <<taero, teps, ipflag, ratio, prog, wi, wj>>
    /\ UNCHANGED <<par, held, qaband, scene, ib, sband, aerob, batm>>

(***************************************************************************)
(* Release of the snapshots and ancillary grids, filler, interpolation.    *)
(***************************************************************************)
FreeAux ==
    /\ pc = "free_aux"
    /\ pc' = "fix"
    /\ held' = held \ {"aerob", "ancillary"}
    /\ UNCHANGED <<par, qaband, scene, retval, ib, wi, wj, sband, ipflag, taero,
                   teps, aerob, batm, ratio, prog, fault>>

\* the lattice of aerosol window centres
Centers ==
    {p \in Pix : /\ LineOf(p) % LAERO_WINDOW = LHALF_AERO_WINDOW
                 /\ SampOf(p) % LAERO_WINDOW = LHALF_AERO_WINDOW}

RECURSIVE SumOver(_, _)
SumOver(f, S) ==
    IF S = {} THEN 0
    ELSE LET x == CHOOSE y \in S : TRUE IN f[x] + SumOver(f, S \ {x})

\* centres with a valid retrieval
ValidCenters(f) ==
    {p \in Centers : HasBit(f[p], IPFLAG_CLEAR) /\ ~HasBit(f[p], IPFLAG_FILL)}

DefaultAero == 50
DefaultEps == 1500

\* fix_invalid_aerosols_landsat on one array: an invalid centre (ipflag 0)
\* takes the mean over the valid centres, the default when there is none
FixInvalid(f, arr, dflt) ==
    [p \in Pix |->
        IF p \in Centers /\ f[p] = 0
        THEN (IF ValidCenters(f) = {} THEN dflt
              ELSE SumOver(arr, ValidCenters(f)) \div Cardinality(ValidCenters(f)))
        ELSE arr[p]]

FixInvalidAerosols ==
    /\ pc = "fix"
    /\ \/ /\ taero' = FixInvalid(ipflag, taero, DefaultAero)
          /\ teps' = FixInvalid(ipflag, teps, DefaultEps)
          /\ prog' = [prog EXCEPT !.fix = {"done"}]
          /\ pc' = "interp_taero"
          /\ UNCHANGED <<retval, fault>>
       \/ /\ ReturnErrorAsIs("fix_invalid_aerosols_landsat")
          /\ UNCHANGED <<taero, teps, prog>>
    /\ UNCHANGED <<par, held, qaband, scene, ib, wi, wj, sband, ipflag, aerob, batm, ratio>>

\* the lattice coordinate at or before x, and the next one (clamped)
CLo(x) ==
    IF x < LHALF_AERO_WINDOW THEN LHALF_AERO_WINDOW
    ELSE LHALF_AERO_WINDOW
         + ((x - LHALF_AERO_WINDOW) \div LAERO_WINDOW) * LAERO_WINDOW

CHi(x, n) ==
    IF x < LHALF_AERO_WINDOW THEN CLo(x)
    ELSE IF CLo(x) + LAERO_WINDOW < n THEN CLo(x) + LAERO_WINDOW ELSE CLo(x)

\* aerosol_interp_landsat at one pixel: bilinear in the four surrounding
\* window centres, nearest centre at the raster edges
InterpAt(arr, p) ==
    LET l0 == CLo(LineOf(p))
        l1 == CHi(LineOf(p), MaxLines)
        s0 == CLo(SampOf(p))
        s1 == CHi(SampOf(p), MaxSamps)
        du == IF l1 = l0 THEN 0 ELSE LineOf(p) - l0
        dv == IF s1 = s0 THEN 0 ELSE SampOf(p) - s0
        L == LAERO_WINDOW
        four == {arr[PixOf(l0, s0)], arr[PixOf(l0, s1)],
                 arr[PixOf(l1, s0)], arr[PixOf(l1, s1)]}
    IN  IF NaN \in four THEN NaN
        ELSE (arr[PixOf(l0, s0)] * (L - du) * (L - dv)
              + arr[PixOf(l0, s1)] * (L - du) * dv
              + arr[PixOf(l1, s0)] * du * (L - dv)
              + arr[PixOf(l1, s1)] * du * dv) \div (L * L)

aerosol_interp_landsat(q, arr) ==
    [p \in Pix |-> IF level1_qa_is_fill(q[p]) \/ p \in Centers
                   THEN arr[p] ELSE InterpAt(arr, p)]

InterpTaero ==
    /\ pc = "interp_taero"
    /\ taero' = aerosol_interp_landsat(qaband, taero)
    /\ prog' = [prog EXCEPT !.interp = Append(@, "taero")]
    /\ pc' = "interp_teps"
    /\ UNCHANGED <<par, held, qaband, scene, retval, ib, wi, wj, sband, ipflag, teps,
                   aerob, batm, ratio, fault>>

InterpTeps ==
    /\ pc = "interp_teps"
    /\ teps' = aerosol_interp_landsat(qaband, teps)
    /\ prog' = [prog EXCEPT !.interp = Append(@, "teps")]
    /\ pc' = "final"
    /\ ib' = 0
    /\ UNCHANGED <<par, held, qaband, scene, retval, wi, wj, sband, ipflag, taero,
                   aerob, batm, ratio, fault>>

(***************************************************************************)
(* Final correction, one band per step.                                    *)
(***************************************************************************)
ReconstructToa_NoSatm(rsurf, atm) ==
    FMul(FAdd(FMul(rsurf, atm.ttatmg), atm.roatm), atm.tgo)

\* rotoa = (rsurf * bttatmg / (1.0 - bsatm * rsurf) + broatm) * btgo
ReconstructToa(rsurf, atm) ==
    FMul(FAdd(FDiv(FMul(rsurf, atm.ttatmg), FSub(1000, FMul(atm.satm, rsurf))),
              atm.roatm),
         atm.tgo)

AeroLevel_Strict(f, tmpf) ==
    IF FLt(tmpf, LOW_AERO_THRESH) THEN SetBit(f, AERO1_QA)
    ELSE IF FLt(tmpf, AVG_AERO_THRESH) THEN SetBit(f, AERO2_QA)
    ELSE SetBit(SetBit(f, AERO1_QA), AERO2_QA)

\* Set up aerosol QA bits from tmpf = fabs (rsurf - roslamb)
AeroLevel(f, tmpf) ==
    IF FLe(tmpf, LOW_AERO_THRESH) THEN SetBit(f, AERO1_QA)
    ELSE IF FLt(tmpf, AVG_AERO_THRESH) THEN SetBit(f, AERO2_QA)
    ELSE SetBit(SetBit(f, AERO1_QA), AERO2_QA)

\* roslamb of the final correction of band b at pixel p
FinalRoslamb(sc, b, p, rsurf, eps) ==
    IF IsFinite(ReconstructToa(rsurf, batm[b]))
    THEN atmcorlamb2_new(FAdd(rsurf, DeltaOf(sc.toa, b, p)), eps)
    ELSE NaN

FinalBand ==
    /\ pc = "final"
    /\ sband' = [sband EXCEPT ![ib] = [p \in Pix |->
           IF level1_qa_is_fill(qaband[p]) THEN sband[ib][p]
           ELSE ClampRefl(FinalRoslamb(scene, ib, p, sband[ib][p], teps[p]))]]
    /\ ipflag' = [p \in Pix |->
           IF level1_qa_is_fill(qaband[p]) \/ ib # DNL_BAND1 THEN ipflag[p]
           ELSE AeroLevel(ipflag[p],
                    FAbs(FSub(sband[ib][p],
                         FinalRoslamb(scene, ib, p, sband[ib][p], teps[p]))))]
    /\ prog' = [prog EXCEPT
           !.final = @ \cup {ib},
           !.rotoa[ib] = [p \in Pix |->
               IF level1_qa_is_fill(qaband[p]) THEN @[p]
               ELSE ReconstructToa(sband[ib][p], batm[ib])],
           !.tmpf = [p \in Pix |->
               IF level1_qa_is_fill(qaband[p]) \/ ib # DNL_BAND1 THEN @[p]
               ELSE FAbs(FSub(sband[ib][p],
                        FinalRoslamb(scene, ib, p, sband[ib][p], teps[p])))]]
    /\ ib' = IF ib + 1 > DNL_BAND7 THEN 0 ELSE ib + 1
    /\ pc' = IF ib + 1 > DNL_BAND7 THEN "open" ELSE "final"
    /\ held' = IF ib + 1 > DNL_BAND7 THEN held \ {"aerosol"} ELSE held
    /\ UNCHANGED <<par, qaband, scene, retval, wi, wj, taero, teps, aerob, batm,
                   ratio, fault>>

(***************************************************************************)
(* Output.                                                                 *)
(***************************************************************************)
OpenOutput ==
    /\ pc = "open"
    /\ \/ /\ pc' = "write"
          /\ ib' = 0
          /\ UNCHANGED <<retval, fault>>
       \/ /\ ReturnErrorAsIs("open_output")
          /\ UNCHANGED ib
    /\ UNCHANGED <<par, held, qaband, scene, wi, wj, sband, ipflag, taero, teps, aerob,
                   batm, ratio, prog>>

WriteBand ==
    /\ pc = "write"
    /\ \/ /\ ib' = IF ib + 1 > DNL_BAND7 THEN 0 ELSE ib + 1
          /\ pc' = IF ib + 1 > DNL_BAND7 THEN "write_qa" ELSE "write"
          /\ UNCHANGED <<retval, fault>>
       \/ /\ \E what \in {"put_output_lines", "create_envi_struct",
                          "write_envi_hdr"} : ReturnError(what)
          /\ UNCHANGED ib
    /\ UNCHANGED <<par, held, qaband, scene, wi, wj, sband, ipflag, taero, teps, aerob,
                   batm, ratio, prog>>

WriteAerosolQA ==
    /\ pc = "write_qa"
    /\ \/ /\ pc' = "returned"
          /\ retval' = SUCCESS
          /\ held' = held \ {"ipflag", "space", "lut"}
          /\ UNCHANGED fault
       \/ \E what \in {"append_metadata", "put_output_lines"} :
              /\ ReturnError(what)
              /\ UNCHANGED held
       \/ \E what \in {"create_envi_struct", "write_envi_hdr"} :
              /\ ReturnError(what)
              /\ held' = held \ {"ipflag"}
    /\ UNCHANGED <<par, qaband, scene, ib, wi, wj, sband, ipflag, taero, teps,
                   aerob, batm, ratio, prog>>

(***************************************************************************)
(* The three OpenMP loops, two threads, one loop iteration (or one         *)
(* statement on a shared variable) per step.                               *)
(***************************************************************************)
NSR_BANDS == 8

\* schedule(static): each thread takes one contiguous chunk of iterations
ChunkSize(n) == (n + Cardinality(Threads) - 1) \div Cardinality(Threads)

PixelChunk(t) == {i \in Pix : i \div ChunkSize(NPixels) = t}

WindowRows == {i \in Lines : i % LAERO_WINDOW = LHALF_AERO_WINDOW}

RowChunk(t) ==
    {i \in WindowRows :
        ((i - LHALF_AERO_WINDOW) \div LAERO_WINDOW)
            \div ChunkSize(Cardinality(WindowRows)) = t}

FirstOf(S) == CHOOSE x \in S : \A y \in S : x <= y

DoneThread == [IdleThread EXCEPT !.st = "done"]

\* for (i = 0; i < npixels; i++): a thread at the first pixel of its chunk
PixelThread(t) ==
    IF PixelChunk(t) = {} THEN DoneThread
    ELSE [IdleThread EXCEPT !.st = "pixel", !.i = FirstOf(PixelChunk(t))]

\* i++
AfterPixel(t, th) ==
    IF th.i + 1 \in PixelChunk(t) THEN [th EXCEPT !.i = th.i + 1]
    ELSE DoneThread

\* iteration iter wrote element elem of array a
Logged(log, a, elem, iter) == [log EXCEPT ![a][elem] = @ \cup {iter}]

AllDone == \A t \in Threads : thr[t].st = "done"

ParClimStart ==
    /\ pc = "clim"
    /\ \/ /\ batm' = [batm EXCEPT ![ib] = AtmOf(scene.atm, ib)]
          /\ thr' = [t \in Threads |-> PixelThread(t)]
          /\ wlog' = NoWrites
          /\ pc' = "clim_par"
          /\ UNCHANGED <<retval, fault>>
       \/ /\ ReturnError("atmcorlamb2")
          /\ UNCHANGED <<batm, thr, wlog>>
    /\ UNCHANGED <<held, qaband, scene, ib, wi, wj, sband, ipflag, taero, teps,
                   aerob, ratio, prog, xa, xb>>

ParClimPixel(t) ==
    /\ pc = "clim_par"
    /\ thr[t].st = "pixel"
    /\ LET i == thr[t].i
       IN  IF level1_qa_is_fill(qaband[i])
           THEN /\ ipflag' = IF ib = DNL_BAND1
                             THEN [ipflag EXCEPT ![i] = Pow2(IPFLAG_FILL)]
                             ELSE ipflag
                /\ wlog' = IF ib = DNL_BAND1
                           THEN Logged(wlog, "ipflag", i, i) ELSE wlog
                /\ UNCHANGED <<sband, aerob>>
           ELSE /\ aerob' = IF ib \in AeroBands
                            THEN [aerob EXCEPT ![ib][i] = sband[ib][i]]
                            ELSE aerob
                /\ sband' = [sband EXCEPT ![ib][i] = ClimPixel(@, batm[ib])]
                /\ wlog' = IF ib \in AeroBands
                           THEN Logged(Logged(wlog, "aerob", i, i), "sband", i, i)
                           ELSE Logged(wlog, "sband", i, i)
                /\ UNCHANGED ipflag
    /\ thr' = [thr EXCEPT ![t] = AfterPixel(t, @)]
    /\ UNCHANGED <<held, qaband, scene, pc, retval, ib, wi, wj, taero, teps, batm,
                   ratio, prog, fault, xa, xb>>

ParClimJoin ==
    /\ pc = "clim_par"
    /\ AllDone
    /\ prog' = [prog EXCEPT !.clim = @ \cup {ib}]
    /\ ib' = IF BandLoopDone(ib + 1) THEN 0 ELSE ib + 1
    /\ pc' = IF BandLoopDone(ib + 1) THEN "coef" ELSE "clim"
    /\ thr' = [t \in Threads |-> IdleThread]
    /\ UNCHANGED <<held, qaband, scene, retval, wi, wj, sband, ipflag, taero, teps,
                   aerob, batm, ratio, fault, xa, xb, wlog>>

\* for (i = LHALF_AERO_WINDOW; i < nlines; i += LAERO_WINDOW): a thread at
\* the first window of its chunk of rows
ParInvStart ==
    /\ pc = "inv"
    /\ thr' = [t \in Threads |->
                  IF RowChunk(t) = {} THEN DoneThread
                  ELSE [IdleThread EXCEPT !.st = "top",
                                          !.i = FirstOf(RowChunk(t)),
                                          !.j = LHALF_AERO_WINDOW]]
    /\ wlog' = NoWrites
    /\ pc' = "inv_par"
    /\ UNCHANGED <<held, qaband, scene, retval, ib, wi, wj, sband, ipflag, taero,
                   teps, aerob, batm, ratio, prog, fault, xa, xb>>

\* the thread at the next window of its row, or at its next row
AfterWindow(t, th, ij) ==
    IF ij[2] + LAERO_WINDOW < MaxSamps
    THEN [th EXCEPT !.st = "top", !.i = ij[1], !.j = ij[2] + LAERO_WINDOW,
                    !.rd = <<>>]
    ELSE IF ij[1] + LAERO_WINDOW \in RowChunk(t)
    THEN [th EXCEPT !.st = "top", !.i = ij[1] + LAERO_WINDOW,
                    !.j = LHALF_AERO_WINDOW, !.rd = <<>>]
    ELSE DoneThread

\* the head of a window: fill test, substitute, geolocation, ratio guard,
\* NDWI, and the ib = 0 that opens the initialisation loop of erelc/troatm
ParInvTop(t) ==
    /\ pc = "inv_par"
    /\ thr[t].st = "top"
    /\ LET center_pix == PixOf(thr[t].i, thr[t].j)
       IN  \/ /\ WindowSkipped(qaband, thr[t].i, thr[t].j)
              /\ thr' = [thr EXCEPT ![t] = AfterWindow(t, @, <<@.i, @.j>>)]
              /\ prog' = [prog EXCEPT !.inv = @ \cup {<<center_pix, -1>>},
                                      !.nvis[center_pix] = @ + 1]
              /\ UNCHANGED <<pc, ratio, ib, retval, fault>>
           \/ /\ ~WindowSkipped(qaband, thr[t].i, thr[t].j)
              /\ \E cp \in RadiometryPixels(qaband, thr[t].i, thr[t].j) :
                   /\ ratio' = GuardQuad(ratio, RatioPix(
                                   WindowGeo(scene.loc, center_pix, cp)))
                   /\ thr' = [thr EXCEPT ![t].st = "ibloop", ![t].cp = cp,
                                 ![t].rd = ReadQuad(ratio, RatioPix(
                                     WindowGeo(scene.loc, center_pix, cp)))]
              /\ ib' = 0
              /\ UNCHANGED <<pc, prog, retval, fault>>
           \/ /\ ~WindowSkipped(qaband, thr[t].i, thr[t].j)
              /\ ExitProcess("from_space")
              /\ UNCHANGED <<thr, ratio, ib, prog>>
    /\ UNCHANGED <<held, qaband, scene, wi, wj, sband, ipflag, taero, teps, aerob,
                   batm, xa, xb, wlog>>

\* the elements of the private erelc and troatm that only the
\* initialisation loop writes
LoopOnly ==
    (0 .. (NSR_BANDS - 1)) \ {DNL_BAND1, DNL_BAND2, DNL_BAND4, DNL_BAND7}

\* those of them a thread has not written
Uninitialised(inited) == LoopOnly \ inited

\* the three trials of subaeroret_new: with an erelc element left
\* uninitialised the bands it fits, and so its residuals, are indeterminate
TrialScen(sc, th) ==
    Scenarios[((sc.base + sc.step * th.cp + th.sh) % Len(Scenarios)) + 1]

\* for (ib = 0; ib < NSR_BANDS; ib++) { erelc[ib] = -1.0; troatm[ib] = 0.0; }
\* on the shared ib: one test, body and increment per step
ParInvInitBand(t) ==
    /\ pc = "inv_par"
    /\ thr[t].st = "ibloop"
    /\ IF ib < NSR_BANDS
       THEN /\ thr' = [thr EXCEPT ![t].inited = @ \cup ({ib} \cap LoopOnly)]
            /\ ib' = ib + 1
            /\ UNCHANGED prog
       ELSE /\ \E sh \in (IF Uninitialised(thr[t].inited) = {}
                          THEN {0} ELSE {0, 1}) :
                   thr' = [thr EXCEPT ![t].st = "xa", ![t].sh = sh]
            /\ prog' = [prog EXCEPT !.aread = @ \cup {thr[t].cp}]
            /\ UNCHANGED ib
    /\ UNCHANGED <<held, qaband, scene, pc, retval, wi, wj, sband, ipflag, taero,
                   teps, aerob, batm, ratio, fault, xa, xb, wlog>>

\* xa = (residual1 - residual3)*(eps2 - eps3), a store to the shared xa
ParInvXa(t) ==
    /\ pc = "inv_par"
    /\ thr[t].st = "xa"
    /\ xa' = XA(TrialScen(scene, thr[t]).r1, TrialScen(scene, thr[t]).r3,
                MOD_EPS, HIGH_EPS)
    /\ thr' = [thr EXCEPT ![t].st = "xb"]
    /\ UNCHANGED <<held, qaband, scene, pc, retval, ib, wi, wj, sband, ipflag,
                   taero, teps, aerob, batm, ratio, prog, fault, xb, wlog>>

\* xb = (residual2 - residual3)*(eps1 - eps3), a store to the shared xb
ParInvXb(t) ==
    /\ pc = "inv_par"
    /\ thr[t].st = "xb"
    /\ xb' = XB(TrialScen(scene, thr[t]).r2, TrialScen(scene, thr[t]).r3,
                LOW_EPS, HIGH_EPS)
    /\ thr' = [thr EXCEPT ![t].st = "select"]
    /\ UNCHANGED <<held, qaband, scene, pc, retval, ib, wi, wj, sband, ipflag,
                   taero, teps, aerob, batm, ratio, prog, fault, xa, wlog>>

\* epsmin from the shared xa and xb, the eps selection, the land/water
\* decision and the stores to the window centre
ParInvSelect(t) ==
    /\ pc = "inv_par"
    /\ thr[t].st = "select"
    /\ LET center_pix == PixOf(thr[t].i, thr[t].j)
           cell == OutputCell(center_pix, thr[t].cp)
           res == WindowResult(ipflag[cell], TrialScen(scene, thr[t]),
                      xmusOf(scene), aerob[DNL_BAND7][thr[t].cp], xa, xb)
       IN  /\ teps' = [teps EXCEPT ![cell] = res.eps]
           /\ taero' = [taero EXCEPT ![cell] = res.raot]
           /\ ipflag' = [ipflag EXCEPT ![cell] = res.flag]
           /\ wlog' = Logged(Logged(Logged(wlog, "teps", cell, thr[t].i),
                                    "taero", cell, thr[t].i),
                             "ipflag", cell, thr[t].i)
           /\ prog' = [prog EXCEPT
                  !.inv = @ \cup {<<center_pix, thr[t].cp>>},
                  !.win = @ \cup {WindowLog(center_pix, thr[t].cp, res,
                                           thr[t].rd)},
                  !.nvis[center_pix] = @ + 1]
           /\ thr' = [thr EXCEPT ![t] = AfterWindow(t, @,
                          LoopVarsAtEnd(@.i, @.j, PixOf(@.i, @.j),
                                        LineOf(@.cp), SampOf(@.cp), @.cp))]
    /\ UNCHANGED <<held, qaband, scene, pc, retval, ib, wi, wj, sband, aerob, batm,
                   ratio, fault, xa, xb>>

ParInvJoin ==
    /\ pc = "inv_par"
    /\ AllDone
    /\ pc' = "free_aux"
    /\ thr' = [t \in Threads |-> IdleThread]
    /\ UNCHANGED <<held, qaband, scene, retval, ib, wi, wj, sband, ipflag, taero,
                   teps, aerob, batm, ratio, prog, fault, xa, xb, wlog>>

ParFinalStart ==
    /\ pc = "final"
    /\ thr' = [t \in Threads |-> PixelThread(t)]
    /\ wlog' = NoWrites
    /\ pc' = "final_par"
    /\ UNCHANGED <<held, qaband, scene, retval, ib, wi, wj, sband, ipflag, taero,
                   teps, aerob, batm, ratio, prog, fault, xa, xb>>

ParFinalPixel(t) ==
    /\ pc = "final_par"
    /\ thr[t].st = "pixel"
    /\ LET i == thr[t].i
           roslamb == FinalRoslamb(scene, ib, i, sband[ib][i], teps[i])
           tmpf == FAbs(FSub(sband[ib][i], roslamb))
       IN  IF level1_qa_is_fill(qaband[i])
           THEN UNCHANGED <<sband, ipflag, prog, wlog>>
           ELSE /\ sband' = [sband EXCEPT ![ib][i] = ClampRefl(roslamb)]
                /\ ipflag' = IF ib = DNL_BAND1
                             THEN [ipflag EXCEPT ![i] = AeroLevel(@, tmpf)]
                             ELSE ipflag
                /\ prog' = IF ib = DNL_BAND1
                           THEN [prog EXCEPT !.tmpf[i] = tmpf] ELSE prog
                /\ wlog' = IF ib = DNL_BAND1
                           THEN Logged(Logged(wlog, "ipflag", i, i), "sband", i, i)
                           ELSE Logged(wlog, "sband", i, i)
    /\ thr' = [thr EXCEPT ![t] = AfterPixel(t, @)]
    /\ UNCHANGED <<held, qaband, scene, pc, retval, ib, wi, wj, taero, teps, aerob,
                   batm, ratio, fault, xa, xb>>

ParFinalJoin ==
    /\ pc = "final_par"
    /\ AllDone
    /\ prog' = [prog EXCEPT !.final = @ \cup {ib}]
    /\ ib' = IF ib + 1 > DNL_BAND7 THEN 0 ELSE ib + 1
    /\ pc' = IF ib + 1 > DNL_BAND7 THEN "open" ELSE "final"
    /\ held' = IF ib + 1 > DNL_BAND7 THEN held \ {"aerosol"} ELSE held
    /\ thr' = [t \in Threads |-> IdleThread]
    /\ UNCHANGED <<qaband, scene, retval, wi, wj, sband, ipflag, taero, teps,
                   aerob, batm, ratio, fault, xa, xb, wlog>>

(***************************************************************************)
(* Properties of the sequential pipeline.                                  *)
(***************************************************************************)
NonFill == {p \in Pix : ~level1_qa_is_fill(qaband[p])}

InRange(r) == FGe(r, MIN_VALID_REFL) /\ FLe(r, MAX_VALID_REFL)

\* the windows the inversion has visited, and those it processed
Visited == {e[1] : e \in prog.inv}

Processed == {e \in prog.inv : e[2] # -1}

\* C1: once the climatology correction has processed a band, and again once
\* the final correction has processed it, the band's surface reflectance of
\* every non-fill pixel lies in [MIN_VALID_REFL, MAX_VALID_REFL].
C1_ReflInRange ==
    \A b \in Bands : \A p \in NonFill :
        (b \in prog.clim \/ b \in prog.final) => InRange(sband[b][p])

\* the final correction has run and clamped a pixel at each end of the range
C1_Witness ==
    /\ pc = "open"
    /\ \E b \in Bands : \E p \in NonFill :
           /\ sband[b][p] = MAX_VALID_REFL
           /\ FGt(FinalRoslamb(scene, b, p, MAX_VALID_REFL, teps[p]), MAX_VALID_REFL)
    /\ \E b \in Bands : \E p \in NonFill : sband[b][p] = MIN_VALID_REFL

\* C2: from the climatology correction of band 1 on, every fill pixel carries
\* the IPFLAG_FILL bit in ipflag, fill window centres with a substitute
\* included, whichever land/water branch the window takes.
C2_FillKeepsFlag ==
    DNL_BAND1 \in prog.clim =>
        \A p \in Pix : level1_qa_is_fill(qaband[p]) => HasBit(ipflag[p], IPFLAG_FILL)

\* C3: at the end of the aerosol inversion the ipflag of every non-fill
\* window centre is CLEAR, WATER, CLEAR|WATER or 0.
C3_CenterFlags ==
    pc = "free_aux" =>
        \A c \in Centers \cap NonFill :
            ipflag[c] \in {Pow2(IPFLAG_CLEAR), Pow2(IPFLAG_WATER),
                          Pow2(IPFLAG_CLEAR) + Pow2(IPFLAG_WATER), 0}

\* the inversion ended with a clear land centre and a centre that went
\* through the water retrieval
C3_Witness ==
    /\ pc = "free_aux"
    /\ \E c \in Centers \cap NonFill : ipflag[c] = Pow2(IPFLAG_CLEAR)
    /\ \E c \in Centers \cap NonFill :
           ipflag[c] \in {0, Pow2(IPFLAG_CLEAR) + Pow2(IPFLAG_WATER)}

C5_SkippedWindowFrame ==
    [][(pc = "inv" /\ WindowNonFill(qaband, wi, wj) = {}) =>
          /\ ipflag' = ipflag
          /\ ipflag[PixOf(wi, wj)] = Pow2(IPFLAG_FILL)
          /\ taero' = taero
          /\ teps' = teps
          /\ ratio' = ratio]_vars

\* the inversion skipped one window and processed another, which changed a
\* ratio cell
C5_Witness ==
    /\ pc = "free_aux"
    /\ \E e \in prog.inv : e[2] = -1 /\ ipflag[e[1]] = Pow2(IPFLAG_FILL)
    /\ Processed # {}
    /\ \E c \in DOMAIN ratio : ratio[c] # RatioInit(c)

\* C8: every fatal collaborator failure makes the function return ERROR to
\* its caller; none terminates the process.
C8_FatalReturnsError ==
    fault.what # "none" => (pc = "returned" /\ retval = ERROR)

\* C9 as stated: the coefficient cache is complete before the climatology
\* correction starts.
C9_CacheBeforeClimatology ==
    prog.clim # {} => (prog.coef = Bands /\ prog.fit = Bands)

\* C9: the stages run in the order look-up table initialisation, climatology
\* correction, coefficient cache, aerosol inversion, filler, interpolation of
\* taero then of teps, final correction; each stage starts only when its
\* predecessor is complete.
C9_StageOrder ==
    /\ prog.clim # {} => prog.init = {"lut"}
    /\ prog.coef # {} => prog.clim = Bands
    /\ prog.fit # {} => prog.coef = Bands
    /\ prog.inv # {} => prog.fit = Bands
    /\ prog.fix # {} => Visited = Centers
    /\ prog.interp # <<>> => prog.fix = {"done"}
    /\ prog.interp \in {<<>>, <<"taero">>, <<"taero", "teps">>}
    /\ prog.final # {} => prog.interp = <<"taero", "teps">>

\* a run in which every stage has run to its end
C9_Witness ==
    /\ pc = "open"
    /\ prog.final = Bands
    /\ prog.interp = <<"taero", "teps">>
    /\ Processed # {}

\* C10: after the final correction of band 1 a non-fill pixel has AERO1 alone
\* when d <= LOW_AERO_THRESH, AERO2 alone when LOW_AERO_THRESH < d <
\* AVG_AERO_THRESH and both when d >= AVG_AERO_THRESH, where d is
\* |rsurf - roslamb| on band 1; every non-fill pixel has at least one of the
\* two bits and no fill pixel has any.
C10_AeroBits ==
    DNL_BAND1 \in prog.final =>
        \A p \in Pix :
            LET a1 == HasBit(ipflag[p], AERO1_QA)
                a2 == HasBit(ipflag[p], AERO2_QA)
                d == prog.tmpf[p]
            IN  IF level1_qa_is_fill(qaband[p]) THEN ~a1 /\ ~a2
                ELSE /\ a1 \/ a2
                     /\ FLe(d, LOW_AERO_THRESH) => (a1 /\ ~a2)
                     /\ (FGt(d, LOW_AERO_THRESH) /\ FLt(d, AVG_AERO_THRESH))
                            => (~a1 /\ a2)
                     /\ FGe(d, AVG_AERO_THRESH) => (a1 /\ a2)

\* the final correction met d at both thresholds, between them and a fill pixel
C10_Witness ==
    /\ pc = "open"
    /\ \E p \in NonFill : prog.tmpf[p] = LOW_AERO_THRESH
    /\ \E p \in NonFill : prog.tmpf[p] = AVG_AERO_THRESH
    /\ \E p \in NonFill : prog.tmpf[p] > LOW_AERO_THRESH
                          /\ prog.tmpf[p] < AVG_AERO_THRESH
    /\ \E p \in Pix : level1_qa_is_fill(qaband[p])

\* C11: on every return path of compute_landsat_sr_refl, success or ERROR,
\* every block obtained from landsat_memory_allocation_sr and the geolocation
\* mapping have been released.
C11_ReleasedOnReturn ==
    pc = "returned" => held = {}

\* C12: while the snapshots are allocated, aerob of a band the climatology
\* correction has processed holds at every non-fill pixel the TOA value sband
\* had before the correction; the inversion reads the snapshots at non-fill
\* pixels only; the snapshots are allocated during the inversion and released
\* before the filler, the interpolation and the final correction, which do
\* not read them.
C12_Snapshots ==
    /\ "aerob" \in held =>
           \A b \in AeroBands \cap prog.clim : \A p \in NonFill :
               aerob[b][p] = ToaOf(scene.toa, b, p)
    /\ \A p \in prog.aread : ~level1_qa_is_fill(qaband[p])
    /\ pc = "inv" => ("aerob" \in held /\ AeroBands \subseteq prog.clim)
    /\ pc \in {"fix", "interp_taero", "interp_teps", "final"} => "aerob" \notin held

\* the snapshots are released after an inversion that read them at a
\* substitute pixel, and they differ from the corrected sband
C12_Witness ==
    /\ pc = "fix"
    /\ \E e \in Processed : e[2] # e[1] /\ e[2] \in prog.aread
    /\ \E p \in NonFill : aerob[DNL_BAND7][p] # sband[DNL_BAND7][p]

\* C13: after the three trials subaeroret_new is called a fourth time only
\* when epsmin is strictly between LOW_EPS and HIGH_EPS; with epsmin <= LOW_EPS
\* (equality included) the eps1 result is adopted with no further call, with
\* epsmin >= HIGH_EPS (equality included) the eps3 result is adopted with no
\* further call.
C13_RerunStrictlyInside ==
    \A w \in prog.win :
        LET sc == ScenOf(scene, w.cp)
        IN  /\ w.calls = 4 => (FGt(w.epsmin, LOW_EPS) /\ FLt(w.epsmin, HIGH_EPS))
            /\ FLe(w.epsmin, LOW_EPS) =>
                   /\ w.calls = 3
                   /\ w.sel.eps = LOW_EPS
                   /\ w.sel.residual = sc.r1
                   /\ w.sel.raot = sc.a1
            /\ FGe(w.epsmin, HIGH_EPS) =>
                   /\ w.calls = 3
                   /\ w.sel.eps = HIGH_EPS
                   /\ w.sel.residual = sc.r3
                   /\ w.sel.raot = sc.a3

\* C13 as the code has it: the fourth call is made exactly when
\* LOW_EPS <= epsmin <= HIGH_EPS, both ends included, and its result is the
\* one kept; epsmin < LOW_EPS adopts the eps1 result and epsmin > HIGH_EPS the
\* eps3 result, each with three calls in all; a NaN epsmin takes no branch.
C13_RerunInclusive ==
    \A w \in prog.win :
        LET sc == ScenOf(scene, w.cp)
        IN  /\ w.calls \in {3, 4}
            /\ w.calls = 4 <=> (FGe(w.epsmin, LOW_EPS) /\ FLe(w.epsmin, HIGH_EPS))
            /\ w.calls = 4 =>
                   /\ w.sel.eps = w.epsmin
                   /\ w.sel.residual = sc.r4
                   /\ w.sel.raot = sc.a4
            /\ FLt(w.epsmin, LOW_EPS) =>
                   /\ w.calls = 3
                   /\ w.sel.eps = LOW_EPS
                   /\ w.sel.residual = sc.r1
                   /\ w.sel.raot = sc.a1
            /\ FGt(w.epsmin, HIGH_EPS) =>
                   /\ w.calls = 3
                   /\ w.sel.eps = HIGH_EPS
                   /\ w.sel.residual = sc.r3
                   /\ w.sel.raot = sc.a3
            /\ IsNaN(w.epsmin) => (w.calls = 3 /\ IsNaN(w.sel.eps))

\* one window was processed with epsmin exactly LOW_EPS and a fourth call,
\* another with epsmin below LOW_EPS and three calls
C13_Witness ==
    /\ \E w \in prog.win : w.epsmin = LOW_EPS /\ w.calls = 4
    /\ \E w \in prog.win : FLt(w.epsmin, LOW_EPS) /\ w.calls = 3

\* the land test of a logged window: residual below
\* 0.015 + 0.005*corf + 0.10*troatm[band 7], ros5 above 0.1 and NDVI above 0
LandTestPasses(w) ==
    LET sc == ScenOf(scene, w.cp)
        corf == FDiv(w.sel.raot, xmusOf(scene))
        ros5 == atmcorlamb2_new(sc.ros5, w.sel.eps)
        ros4 == atmcorlamb2_new(sc.ros4, w.sel.eps)
    IN  /\ FLt(w.sel.residual,
               FAdd(15, FAdd(FMul(5, corf), FMul(100, aerob[DNL_BAND7][w.cp]))))
        /\ FGt(ros5, 100)
        /\ FGt(FDiv(FSub(ros5, ros4), FAdd(ros5, ros4)), 0)

\* C14: in the land/water decision of a processed window the CLEAR bit is set
\* at the centre exactly when the residual is below the land threshold, ros5
\* exceeds 0.1 and the NDVI is positive; in every other case the WATER bit is
\* set and the water retrieval is run for that window.
C14_LandWaterDecision ==
    \A w \in prog.win :
        /\ HasBit(w.lf, IPFLAG_CLEAR) <=> LandTestPasses(w)
        /\ HasBit(w.lf, IPFLAG_WATER) <=> ~LandTestPasses(w)
        /\ w.water <=> ~LandTestPasses(w)
        /\ Len(w.wcalls) = (IF LandTestPasses(w) THEN 0 ELSE 1)

\* one window passed the residual test and failed the NDVI test, so went to
\* the water retrieval, and another passed both and was flagged clear
C14_Witness ==
    /\ \E w \in prog.win :
           /\ w.water
           /\ LandResidualOk(w.sel.residual, w.sel.raot, xmusOf(scene),
                             aerob[DNL_BAND7][w.cp])
    /\ \E w \in prog.win : ~w.water /\ HasBit(w.flag, IPFLAG_CLEAR)

\* the threshold of the water test, 0.010 + 0.005*corf, of a logged window
WaterThreshold(w) ==
    FAdd(10, FMul(5, FDiv(ScenOf(scene, w.cp).wa, xmusOf(scene))))

\* C15: when the WATER bit is set one subaeroret_new call is made with
\* water = true, eps = 1.5 and iaots reset to 0; a residual above
\* 0.010 + 0.005*corf or a negative ros1 resets the centre's ipflag to 0 and
\* the loop goes on to the next window, otherwise the flag becomes exactly
\* CLEAR|WATER; a residual equal to the threshold counts as valid water.
C15_WaterRetrieval ==
    /\ \A w \in prog.win :
           LET sc == ScenOf(scene, w.cp)
               ros1 == atmcorlamb2_new(sc.ros1, 1500)
           IN  HasBit(w.lf, IPFLAG_WATER) =>
                   /\ w.wcalls = <<[water |-> TRUE, eps |-> 1500, iaots |-> 0]>>
                   /\ w.eps = 1500
                   /\ (FGt(sc.wr, WaterThreshold(w)) \/ FLt(ros1, 0)) => w.flag = 0
                   /\ ~(FGt(sc.wr, WaterThreshold(w)) \/ FLt(ros1, 0)) =>
                          w.flag = Pow2(IPFLAG_CLEAR) + Pow2(IPFLAG_WATER)
                   /\ sc.wr = WaterThreshold(w) /\ FGe(ros1, 0) =>
                          w.flag = Pow2(IPFLAG_CLEAR) + Pow2(IPFLAG_WATER)
                   /\ pc \in {"inv", "free_aux", "fix"} => ipflag[w.c] = w.flag
    /\ pc = "free_aux" => Centers \subseteq Visited

\* a water window whose residual equals the threshold was kept as valid water,
\* and the inversion went on to its end
C15_Witness ==
    /\ pc = "free_aux"
    /\ \E w \in prog.win :
           /\ w.water
           /\ ScenOf(scene, w.cp).wr = WaterThreshold(w)
           /\ ipflag[w.c] = Pow2(IPFLAG_CLEAR) + Pow2(IPFLAG_WATER)

\* a water window failed the water test and its flag was reset to 0
C15_WitnessInvalid ==
    \E w \in prog.win : w.water /\ w.flag = 0 /\ ipflag[w.c] = 0

\* C16: a step of the inversion stage writes taero, teps and ipflag at the
\* index of the window centre only, also when a substitute pixel supplies the
\* radiometry; the substitute and every other pixel keep their values.
C16_CentreOnlyWrites ==
    [][pc = "inv" =>
          \A p \in Pix \ {PixOf(wi, wj)} :
              /\ taero'[p] = taero[p]
              /\ teps'[p] = teps[p]
              /\ ipflag'[p] = ipflag[p]]_vars

\* a window was processed with a substitute pixel: the centre holds the
\* retrieval and the substitute still has the values it had before
C16_Witness ==
    /\ pc = "free_aux"
    /\ \E e \in Processed :
           /\ e[2] # e[1]
           /\ teps[e[1]] # 0
           /\ taero[e[1]] # 0
           /\ teps[e[2]] = 0
           /\ taero[e[2]] = 0
           /\ ipflag[e[2]] = 0

\* C17: the NDWI a window uses is computed from the band 5 and band 7 TOA
\* reflectance of its radiometry pixel, the values held in the aerob5 and
\* aerob7 snapshots, as (b5 - 0.5*b7)/(b5 + 0.5*b7), and then clamped to
\* [ndwi_th2, ndwi_th1].
C17_NdwiFromToa ==
    \A w \in prog.win :
        LET c == RatioPix(w.geo)[1]
        IN  w.xndwi = NdwiClamp(Ndwi(ToaOf(scene.toa, DNL_BAND5, w.cp),
                                     ToaOf(scene.toa, DNL_BAND7, w.cp)),
                                NdwiTh1(c), NdwiTh2(c))

\* the NDWI of every window lies in [ndwi_th2, ndwi_th1] and is the clamped
\* ratio of the climatology-corrected band 5 and band 7 values
C17_NdwiFromCorrected ==
    \A w \in prog.win :
        LET c == RatioPix(w.geo)[1]
        IN  /\ pc \in {"inv", "free_aux", "fix"} =>
                   w.xndwi = NdwiClamp(Ndwi(sband[SRL_BAND5][w.cp],
                                            sband[SRL_BAND7][w.cp]),
                                       NdwiTh1(c), NdwiTh2(c))
            /\ FGe(w.xndwi, NdwiTh2(c))
            /\ FLe(w.xndwi, NdwiTh1(c))

\* C18: the (lat, lon) a processed window uses to resample the ancillary and
\* ratio grids is the geolocation of the window-centre pixel, at
\* img.l = i - 0.5, img.s = j + 0.5 with (i, j) the centre's line and sample,
\* also when a substitute pixel supplies the radiometry.
C18_GeolocatesCentre ==
    \A w \in prog.win : w.geo = from_space(scene.loc, LineOf(w.c), SampOf(w.c))

\* C18 as the code has it: the (lat, lon) of a processed window is the
\* geolocation of its current pixel, the centre when the centre is not fill
\* and the nearest non-fill pixel otherwise, at img.l = i - 0.5,
\* img.s = j + 0.5 with (i, j) the line and sample of that pixel.
C18_GeolocatesCurrent ==
    \A w \in prog.win :
        /\ w.geo = from_space(scene.loc, LineOf(w.cp), SampOf(w.cp))
        /\ ~level1_qa_is_fill(qaband[w.c]) => w.cp = w.c
        /\ level1_qa_is_fill(qaband[w.c]) =>
               w.cp \in find_closest_non_fill(qaband, LineOf(w.c), SampOf(w.c))

\* a window was processed with a substitute pixel whose geolocation is not
\* that of the centre
C18_Witness ==
    \E w \in prog.win :
        /\ w.cp # w.c
        /\ w.geo # from_space(scene.loc, LineOf(w.c), SampOf(w.c))

RoatmStops(arr) ==
    {ia \in 1 .. (NAOT_VALS - 1) : arr[ia] - arr[ia - 1] <= ESPA_EPSILON}

\* C21: for each fitted band roatm_iaMax is ia-1 for the first ia in
\* 1 .. NAOT_VALS-1 whose roatm increment is at most ESPA_EPSILON and
\* NAOT_VALS-1 when there is none; it lies in [0, NAOT_VALS-1] and roatm is
\* strictly increasing over the indices 0 .. roatm_iaMax.
C21_IaMax ==
    \A b \in prog.fit :
        LET arr == roatm_arr(scene, b)
            m == prog.iamax[b]
        IN  /\ RoatmStops(arr) = {} => m = NAOT_VALS - 1
            /\ RoatmStops(arr) # {} =>
                   /\ m + 1 \in RoatmStops(arr)
                   /\ \A ia \in RoatmStops(arr) : m + 1 <= ia
            /\ m \in 0 .. (NAOT_VALS - 1)
            /\ \A ia \in 1 .. m : arr[ia] > arr[ia - 1]

\* all bands are fitted: one stopped at the first sample, one at an increment
\* of exactly ESPA_EPSILON, one at the last sample and one not at all
C21_Witness ==
    /\ prog.fit = Bands
    /\ \E b \in Bands : prog.iamax[b] = 0
    /\ \E b \in Bands : prog.iamax[b] = NAOT_VALS - 1
    /\ \E b \in Bands : prog.iamax[b] = NAOT_VALS - 2
    /\ \E b \in Bands :
           /\ prog.iamax[b] = 7
           /\ roatm_arr(scene, b)[8] - roatm_arr(scene, b)[7] = ESPA_EPSILON

\* C22: the cubic fit of roatm for a band is given exactly the samples with
\* AOT indices 0 .. roatm_iaMax inclusive, the last being the sample at
\* aot550nm[iaMax] that bounds the evaluator, and the fits of ttatmg and satm
\* are given all NAOT_VALS samples.
C22_FitSamples ==
    \A b \in prog.fit :
        /\ prog.fitn[b].roatm = 0 .. prog.iamax[b]
        /\ prog.fitn[b].ttatmg = 0 .. (NAOT_VALS - 1)
        /\ prog.fitn[b].satm = 0 .. (NAOT_VALS - 1)

\* the samples the fits are given: the first roatm_iaMax ones for roatm, which
\* leaves out the sample at index roatm_iaMax, and all of them for the others
C22_FitSamplesShort ==
    \A b \in prog.fit :
        /\ prog.fitn[b].roatm = 0 .. (prog.iamax[b] - 1)
        /\ prog.iamax[b] \notin prog.fitn[b].roatm
        /\ prog.fitn[b].ttatmg = 0 .. (NAOT_VALS - 1)
        /\ prog.fitn[b].satm = 0 .. (NAOT_VALS - 1)

\* the ratio cells the processed windows have guarded
GuardedCells == UNION {{RatioPix(w.geo)[k] : k \in 1 .. 4} : w \in prog.win}

\* C23: the ratio guard is idempotent per cell: a cell that a window has
\* guarded keeps its slopes and intercepts when a later window guards it
\* again, and applying the guard to its values changes nothing.
C23_GuardIdempotent ==
    [][pc = "inv" =>
          \A c \in GuardedCells :
              /\ ratio'[c] = ratio[c]
              /\ GuardCell(c, ratio[c]) = ratio[c]]_vars

\* two windows guarded the same cell, one whose mean ratio is out of range,
\* and the cell holds the defaults
C23_Witness ==
    \E v \in prog.win, w \in prog.win :
        /\ v.c # w.c
        /\ \E c \in {RatioPix(v.geo)[k] : k \in 1 .. 4}
                    \cap {RatioPix(w.geo)[k] : k \in 1 .. 4} :
               /\ RatioFile(c).ratiob1 < 100
               /\ ratio[c] # RatioInit(c)
               /\ ratio[c].int1 = 550

\* C24: in whatever order and interleaving the window centres are processed,
\* the slopes and intercepts a window reads for its four neighbour cells are
\* those of a grid on which the guard was applied once to every cell before
\* the inversion; no window reads an unguarded cell.
PreFixed(c) == GuardCell(c, RatioInit(c))

S2Windows ==
    {w \in prog.win : /\ ScenOf(scene, w.cp).r1 = 40
                      /\ ScenOf(scene, w.cp).r2 = 10
                      /\ ScenOf(scene, w.cp).r3 = 30}

\* C25 (as stated): residuals (0.04, 0.01, 0.03) at eps (1.0, 1.75, 2.5) give
\* an epsmin of about 1.85 (here: within 0.01 of it), which is in range, so a
\* fourth subaeroret_new call is made at that epsmin and it is stored as teps
C25_EpsminAbout185 ==
    \A w \in S2Windows :
        /\ FAbs(FSub(w.epsmin, 1850)) <= 10
        /\ w.calls = 4
        /\ w.sel.eps = w.epsmin

\* C25 (amended): the same residuals give epsmin = 1.825, in range, so a
\* fourth call is made at 1.825; line 1090 stores it as teps, and it is still
\* the centre's teps at the end of the window unless the water retrieval ran
C25_Epsmin1825 ==
    \A w \in S2Windows :
        /\ XA(40, 30, MOD_EPS, HIGH_EPS) = -7500
        /\ XB(10, 30, LOW_EPS, HIGH_EPS) = 30000
        /\ w.epsmin = 1825
        /\ FGe(w.epsmin, LOW_EPS) /\ FLe(w.epsmin, HIGH_EPS)
        /\ w.calls = 4
        /\ w.sel.eps = 1825
        /\ ~w.water => (w.eps = 1825 /\ teps[w.c] = 1825)

\* a window with these residuals passed the land test and kept teps = 1.825
C25_Witness ==
    \E w \in S2Windows : ~w.water /\ w.calls = 4 /\ teps[w.c] = 1825

\* the climatology value of a pixel before the clamp, from its input TOA
Roslamb0(b, p) == ClimRoslamb(ToaOf(scene.toa, b, p), batm[b])

\* the reconstructed TOA of the final correction is the input TOA up to the
\* truncation of the five operations of the round trip (three model units)
Recovered(b, p) ==
    FLe(FAbs(FSub(prog.rotoa[b][p], ToaOf(scene.toa, b, p))), 3)

ClearWater == Pow2(IPFLAG_CLEAR) + Pow2(IPFLAG_WATER)

\* the processed windows whose centre is not fill
NonFillWindows == {w \in prog.win : w.c \in NonFill}

\* C28: at the end of a window's processing a non-fill centre never has the
\* WATER bit without the CLEAR bit: a window that sets WATER in the land/water
\* decision runs the water retrieval, which overwrites ipflag[center] with 0
\* or CLEAR|WATER, so the final values are 0, CLEAR and CLEAR|WATER only.
C28_WaterImpliesClear ==
    pc \in {"inv", "free_aux"} =>
        \A w \in NonFillWindows :
            /\ ipflag[w.c] = w.flag
            /\ ipflag[w.c] \in {0, Pow2(IPFLAG_CLEAR), ClearWater}
            /\ HasBit(ipflag[w.c], IPFLAG_WATER) => HasBit(ipflag[w.c], IPFLAG_CLEAR)
            /\ HasBit(w.lf, IPFLAG_WATER) =>
                   (w.water /\ Len(w.wcalls) = 1 /\ w.flag \in {0, ClearWater})
            /\ ~HasBit(w.lf, IPFLAG_WATER) =>
                   (~w.water /\ w.flag = Pow2(IPFLAG_CLEAR))

\* a non-fill centre ended as valid water and another with its flag reset
C28_Witness ==
    /\ pc = "free_aux"
    /\ \E w \in NonFillWindows : w.water /\ ipflag[w.c] = ClearWater
    /\ \E w \in NonFillWindows : w.water /\ ipflag[w.c] = 0

\* a non-fill centre ended as clear land
C28_WitnessClear ==
    /\ pc = "free_aux"
    /\ \E w \in NonFillWindows : ~w.water /\ ipflag[w.c] = Pow2(IPFLAG_CLEAR)

\* C29: whenever the water retrieval runs for a window, teps[center] and
\* taero[center] are overwritten with eps = 1.5 and the water retrieval's
\* raot before the validity test, so at the end of the inversion every centre
\* marked invalid (ipflag 0) and every valid-water centre (CLEAR|WATER) has
\* teps = 1.5, and only CLEAR-only centres keep the eps of the three-point
\* search.
C29_WaterOverwritesEps ==
    /\ \A w \in prog.win :
           /\ w.water => (w.eps = WaterEps /\ w.raot = ScenOf(scene, w.cp).wa)
           /\ ~w.water => (w.eps = w.sel.eps /\ w.raot = w.sel.raot)
    /\ pc = "free_aux" =>
           /\ \A c \in Centers :
                  ipflag[c] \in {0, ClearWater} => teps[c] = WaterEps
           /\ \A w \in prog.win :
                  /\ teps[w.c] = w.eps /\ taero[w.c] = w.raot
                  /\ ipflag[w.c] = Pow2(IPFLAG_CLEAR) => teps[w.c] = w.sel.eps
                  /\ ipflag[w.c] \in {0, ClearWater} => w.water

\* the inversion ended with a centre reset to 0 whose search eps was not 1.5
\* and whose teps and taero are those of the water retrieval, and with a
\* clear centre that kept its search eps
C29_Witness ==
    /\ pc = "free_aux"
    /\ \E w \in prog.win :
           /\ w.water /\ ipflag[w.c] = 0
           /\ w.sel.eps # WaterEps /\ w.sel.raot # w.raot
           /\ teps[w.c] = WaterEps /\ taero[w.c] = ScenOf(scene, w.cp).wa
    /\ \E w \in prog.win :
           ~w.water /\ ipflag[w.c] = Pow2(IPFLAG_CLEAR) /\ teps[w.c] # WaterEps

\* C30: on every error path of compute_landsat_sr_refl, errmsg has been
\* written in this call by the sprintf of that error branch before it is
\* passed to error_handler, also when fix_invalid_aerosols_landsat fails and
\* when open_output returns NULL.
C30_ErrmsgWritten ==
    fault.what # "none" =>
        /\ fault.errmsg = fault.what
        /\ fault.handed = fault.what

Next ==
    \/ Allocate
    \/ GetGeoloc
    \/ SetupMapping
    \/ InitSrRefl
    \/ ClimBand
    \/ CoefBand
    \/ FitBand
    \/ InvertWindow
    \/ FreeAux
    \/ FixInvalidAerosols
    \/ InterpTaero
    \/ InterpTeps
    \/ FinalBand
    \/ OpenOutput
    \/ WriteBand
    \/ WriteAerosolQA

Spec == Init /\ [][Next]_vars

(***************************************************************************)
(* Properties of the parallel loops.                                       *)
(***************************************************************************)
\* ipflag of a pixel when the inversion starts
FlagBefore(p) == IF level1_qa_is_fill(qaband[p]) THEN Pow2(IPFLAG_FILL) ELSE 0

\* what the sequential loop stores at the centre of a window processed with
\* the radiometry of pixel cp
SeqResult(c, cp) ==
    WindowResult(FlagBefore(c), ScenOf(scene, cp), xmusOf(scene),
                 aerob[DNL_BAND7][cp],
                 XA(ScenOf(scene, cp).r1, ScenOf(scene, cp).r3, MOD_EPS, HIGH_EPS),
                 XB(ScenOf(scene, cp).r2, ScenOf(scene, cp).r3, LOW_EPS, HIGH_EPS))

\* C6: in the parallel aerosol inversion the taero, teps and ipflag stored at
\* the centre of every processed window equal the sequential result, for
\* every interleaving of the threads.
C6_ParallelEqualsSequential ==
    pc \in {"inv", "inv_par", "free_aux"} =>
        \A e \in Processed :
            /\ teps[e[1]] = SeqResult(e[1], e[2]).eps
            /\ taero[e[1]] = SeqResult(e[1], e[2]).raot
            /\ ipflag[e[1]] = SeqResult(e[1], e[2]).flag

\* C7: within one parallel loop (climatology correction of a band, aerosol
\* inversion, final correction of a band) no element of sband, ipflag,
\* taero, teps or the aerob snapshots is written by two different loop
\* iterations.
C7_DisjointWrites ==
    \A a \in Arrays : \A p \in Pix : Cardinality(wlog[a][p]) <= 1

\* the inversion has ended: two iterations wrote teps, one of them for a fill
\* centre through a substitute pixel
C7_Witness ==
    /\ pc = "free_aux"
    /\ \E p \in Pix : \E q \in Pix :
           /\ wlog["teps"][p] # {}
           /\ wlog["teps"][q] # {}
           /\ wlog["teps"][p] # wlog["teps"][q]
    /\ \E e \in Processed : e[2] # e[1] /\ wlog["ipflag"][e[1]] # {}

\* footprints and scenes of the parallel runs
ParTops == {LAERO_WINDOW - 1, MaxLines - 1}

InitPar ==
    InitWith(ParTops, {0},
             [toa : {0}, atm : {0}, base : {0, 2, 4}, step : {1}, loc : {0}])

NextPar ==
    \/ Allocate
    \/ GetGeoloc
    \/ SetupMapping
    \/ InitSrRefl
    \/ ParClimStart
    \/ \E t \in Threads : ParClimPixel(t)
    \/ ParClimJoin
    \/ CoefBand
    \/ FitBand
    \/ ParInvStart
    \/ \E t \in Threads : ParInvTop(t)
    \/ \E t \in Threads : ParInvInitBand(t)
    \/ \E t \in Threads : ParInvXa(t)
    \/ \E t \in Threads : ParInvXb(t)
    \/ \E t \in Threads : ParInvSelect(t)
    \/ ParInvJoin
    \/ FreeAux
    \/ FixInvalidAerosols
    \/ InterpTaero
    \/ InterpTeps
    \/ ParFinalStart
    \/ \E t \in Threads : ParFinalPixel(t)
    \/ ParFinalJoin
    \/ OpenOutput
    \/ WriteBand
    \/ WriteAerosolQA

SpecPar == InitPar /\ [][NextPar]_vars


(***************************************************************************)
(* The CMG indexing on its own: one pixel (wi, wj) of a scene at any of    *)
(* the locations is geolocated, indexed into the grids and guarded.        *)
(***************************************************************************)
InitCmg ==
    /\ qaband = FillPattern(0, 0)
    /\ scene \in [toa : {0}, atm : {0}, base : {0}, step : {1},
                  loc : 0 .. (Len(Locations) - 1)]
    /\ pc = "cmg"
    /\ retval = "none"
    /\ ib = 0
    /\ wi \in Lines
    /\ wj \in 0 .. (MaxSamps - 1)
    /\ sband = [b \in Bands |-> [p \in Pix |-> ToaOf(scene.toa, b, p)]]
    /\ ipflag = [p \in Pix |-> 0]
    /\ taero = [p \in Pix |-> 0]
    /\ teps = [p \in Pix |-> 0]
    /\ aerob = [b \in AeroBands |-> [p \in Pix |-> 0]]
    /\ batm = [b \in Bands |-> NoAtm]
    /\ ratio = [c \in CellsOf(scene.loc) |-> RatioInit(c)]
    /\ prog = NoProgress
    /\ fault = NoFault
    /\ thr = [t \in Threads |-> IdleThread]
    /\ xa = 0
    /\ xb = 0
    /\ wlog = NoWrites
    /\ held = AllocatedBlocks \cup {"space"}

\* lines 774-933 for the pixel (wi, wj): lat and lon, the CMG indices and the
\* guard of the four ratio cells
CmgResample ==
    /\ pc = "cmg"
    /\ pc' = "cmg_done"
    /\ prog' = [prog EXCEPT !.cmg = CmgIndex(from_space(scene.loc, wi, wj))]
    /\ ratio' = GuardQuad(ratio, RatioPix(from_space(scene.loc, wi, wj)))
    /\ UNCHANGED <<par, held, qaband, scene, retval, ib, wi, wj, sband, ipflag,
                   taero, teps, aerob, batm, fault>>

\* C20: the CMG indexing keeps lcmg in [0, CMG_NBLAT-1] and scmg in
\* [0, CMG_NBLON-1] for every (lat, lon); the longitude neighbour wraps to 0
\* from the last column, the latitude neighbour stays on the last row;
\* lat = 89.975, lon = 179.975 gives (0, CMG_NBLON-1) with scmg1 = 0,
\* lat = -89.975 gives lcmg = lcmg1 = CMG_NBLAT-1; the four ratio_pix indices
\* lie inside the ratio grid.
C20_CmgIndexing ==
    pc = "cmg_done" =>
        LET geo == from_space(scene.loc, wi, wj)
            c == prog.cmg
        IN  /\ c.lcmg \in 0 .. (CMG_NBLAT - 1)
            /\ c.scmg \in 0 .. (CMG_NBLON - 1)
            /\ c.scmg1 = (IF c.scmg = CMG_NBLON - 1 THEN 0 ELSE c.scmg + 1)
            /\ c.lcmg1 = (IF c.lcmg = CMG_NBLAT - 1 THEN c.lcmg ELSE c.lcmg + 1)
            /\ (geo.lat = 89975 /\ geo.lon = 179975) =>
                   (c.lcmg = 0 /\ c.scmg = CMG_NBLON - 1 /\ c.scmg1 = 0)
            /\ geo.lat = -89975 =>
                   (c.lcmg = CMG_NBLAT - 1 /\ c.lcmg1 = CMG_NBLAT - 1)
            /\ \A k \in 1 .. 4 :
                   c.pix[k] \in 0 .. (RATIO_NBLAT * RATIO_NBLON - 1)
            /\ c.pix = << c.lcmg * RATIO_NBLON + c.scmg,
                          c.lcmg * RATIO_NBLON + c.scmg1,
                          c.lcmg1 * RATIO_NBLON + c.scmg,
                          c.lcmg1 * RATIO_NBLON + c.scmg1 >>

\* the pixel at lat = 89.975, lon = 179.975 was indexed: first row, last
\* column, neighbour column 0
C20_Witness ==
    /\ pc = "cmg_done"
    /\ from_space(scene.loc, wi, wj) = [lat |-> 89975, lon |-> 179975]
    /\ prog.cmg.scmg = CMG_NBLON - 1
    /\ prog.cmg.scmg1 = 0

\* a pixel at lat = -89.975 was indexed: last row, neighbour row the same
C20_WitnessSouth ==
    /\ pc = "cmg_done"
    /\ from_space(scene.loc, wi, wj).lat = -89975
    /\ prog.cmg.lcmg1 = CMG_NBLAT - 1

\* the intercept of band 1 interpolated for the indexed pixel (lines 941-957)
Intrb1 ==
    Bilinear(prog.cmg.u, prog.cmg.v,
             ratio[prog.cmg.pix[1]].int1, ratio[prog.cmg.pix[2]].int1,
             ratio[prog.cmg.pix[3]].int1, ratio[prog.cmg.pix[4]].int1)

QuadInt1 == {ratio[prog.cmg.pix[k]].int1 : k \in 1 .. 4}

\* C27: for every latitude in [-90, 90] and longitude in [-180, 180] the
\* weights u = ycmg - lcmg and v = xcmg - scmg computed after the index
\* clamping lie in [0, 1], so the interpolated intercept is a convex
\* combination of the four neighbour cells.
C27_WeightsConvex ==
    LET geo == from_space(scene.loc, wi, wj)
    IN  (/\ pc = "cmg_done"
         /\ geo.lat \in -90000 .. 90000
         /\ geo.lon \in -180000 .. 180000) =>
            /\ prog.cmg.u \in 0 .. 1000
            /\ prog.cmg.v \in 0 .. 1000
            /\ \E lo \in QuadInt1 : lo <= Intrb1
            /\ \E hi \in QuadInt1 : Intrb1 <= hi

NextCmg == CmgResample

SpecCmg == InitCmg /\ [][NextCmg]_vars

====
